---------------------------- MODULE Spec2Model ----------------------------
(***************************************************************************)
(* A model of the PBR renderer: initialisation (PBRRenderer.init), the     *)
(* frame callback (PBRRenderer.render), the uniform binder                 *)
(* (UniformManager), the scene graph (SceneObject, SceneManager) and the   *)
(* material editor's handlers (MaterialEditor), the camera, the fragment   *)
(* shader, the Mesh with its factories, and createShaderProgram.           *)
(*                                                                         *)
(* Numbers: every real of the source is held in hundredths (0.05 is 5,     *)
(* 2.5 is 250).  A matrix is held by the arguments that determine it.      *)
(* JavaScript is single threaded: each handler runs to completion, so      *)
(* each handler is one action.  The GL calls a handler issues are kept,    *)
(* in order, in glLog.                                                     *)
(***************************************************************************)
EXTENDS Integers, Sequences, FiniteSets, TLC

VARIABLES
    init,          \* init(): [called, error, returned]
    renderer,      \* which fields of PBRRenderer are non-null
    uniformInfo,   \* UniformManager.uniformInfo / uniformLocations: name -> type
    material,      \* PBRRenderer.material
    ibl,           \* PBRRenderer.ibl
    lights,        \* PBRRenderer.lights
    objects,       \* SceneManager.objects
    albedoRef,     \* per scene object: which array its material.albedo is,
                   \*   "renderer" (PBRRenderer.material.albedo itself) or "own"
    meshLoaded,    \* per mesh of PBRRenderer.meshes: vertexArray is non-null
    lastTime,      \* PBRRenderer.lastTime
    bound,         \* the GL program's uniform state: name -> flat components
    glError,       \* the GL context's error flag (read and reset by getError)
    glLog,         \* the GL calls issued by the handler that ran last
    rafPending,    \* number of requestAnimationFrame callbacks pending
    errorDisplay,  \* what displayError showed last: "none", "init", "render"
    lastCall,      \* the setUniform call made from outside render(), when it ran last
    camera,        \* PBRRenderer.camera: the Camera's fields
    cameraEvents,  \* number of camera events handled
    meshObj,       \* a Mesh: vertexArray, vertexBuffer, indexBuffer, indexCount
    meshLog,       \* the GL and console calls the Mesh's methods have made
    meshCalls,     \* the methods of the Mesh called so far, in order
    fragment,      \* the inputs of one run of the fragment shader for one light
    shaded,        \* what that run computed
    activeObjectIndex,  \* SceneManager.activeObjectIndex
    shaderLog,     \* the GL calls createShaderProgram made on shaders and programs
    vecCall,       \* a setUniform call on a vector uniform: [name, form, comps]
    factory,       \* the arguments of one call of a Mesh factory
    built          \* the vertex count and the index list that call produced

vars == <<init, renderer, uniformInfo, material, ibl, lights, objects,
          albedoRef, meshLoaded, lastTime, bound, glError, glLog, rafPending,
          errorDisplay, lastCall, camera, cameraEvents, meshObj, meshLog, meshCalls,
          fragment, shaded, activeObjectIndex, shaderLog, vecCall, factory, built>>

\* the state the renderer's own handlers leave alone
meshVars == <<meshObj, meshLog, meshCalls>>

shaderVars == <<fragment, shaded>>

factoryVars == <<vecCall, factory, built>>

others == <<camera, cameraEvents, meshObj, meshLog, meshCalls, fragment, shaded,
            activeObjectIndex, shaderLog, vecCall, factory, built>>

-----------------------------------------------------------------------------
(* Bounds of the model *)

\* the longest light list an initial state holds (MAX_LIGHTS is 8)
MaxLightsLen == 9
\* performance.now() advances by at most one unit per frame, up to MaxTime
MaxTime == 1

\* camera events (pointer, wheel, setTarget, setRadius) handled in a run
MaxCameraEvents == 3
\* calls of loadFromData, render and dispose on one Mesh
MaxMeshCalls == 6
\* addObject is called on scenes of fewer than MaxObjects objects
MaxObjects == 6

-----------------------------------------------------------------------------
(* JavaScript values *)

\* a property that is absent (undefined): falsy, like 0
Undefined == -1
\* what a non-numeric argument converts to
NaN == 99999

Num(n) == [kind |-> "number", c |-> <<n>>]
Arr(s) == [kind |-> "array", c |-> s]
F32(s) == [kind |-> "typed", c |-> s]
Mat3(s) == [kind |-> "mat3", c |-> s]
Mat4(s) == [kind |-> "mat4", c |-> s]

\* v || d on numbers
JsOr(v, d) == IF v = 0 \/ v = Undefined \/ v = NaN THEN d ELSE v

\* Array.isArray(v)
IsArray(v) == v.kind = "array"
\* typeof v === 'object' (arrays and typed arrays are objects)
IsObject(v) == v.kind \in {"array", "typed", "mat3", "mat4"}
\* v.length of an array-like: a mat3 holds 9 floats, a mat4 16
Length(v) ==
    CASE v.kind = "mat3" -> 9
      [] v.kind = "mat4" -> 16
      [] v.kind \in {"array", "typed"} -> Len(v.c)
      [] OTHER -> Undefined
\* a value is truthy unless it is 0, NaN or undefined; objects are truthy
Truthy(v) == IsObject(v) \/ (v.kind = "number" /\ JsOr(v.c[1], 0) # 0)

\* ToNumber of an argument: an array of one number converts to that number
ToNumber(v) ==
    CASE v.kind = "number" -> v.c[1]
      [] v.kind \in {"array", "typed"} /\ Len(v.c) = 1 -> v.c[1]
      [] OTHER -> NaN

RECURSIVE ToFloats(_)
\* the float list a rest-argument array [v1, v2, ...] converts to
ToFloats(values) ==
    IF values = <<>> THEN <<>>
    ELSE <<ToNumber(Head(values))>> \o ToFloats(Tail(values))

-----------------------------------------------------------------------------
(* The shading program's interface *)

MAX_LIGHTS == 8

\* the uniforms the vertex and the fragment shader declare: size is the
\* declared array size, 1 for a uniform that is no array
UniformDecls ==
    { [name |-> "u_modelMatrix", type |-> "FLOAT_MAT4", size |-> 1],
      [name |-> "u_viewMatrix", type |-> "FLOAT_MAT4", size |-> 1],
      [name |-> "u_projectionMatrix", type |-> "FLOAT_MAT4", size |-> 1],
      [name |-> "u_normalMatrix", type |-> "FLOAT_MAT3", size |-> 1],
      [name |-> "u_cameraPosition", type |-> "FLOAT_VEC3", size |-> 1],
      [name |-> "u_numLights", type |-> "INT", size |-> 1],
      [name |-> "u_lightTypes", type |-> "INT", size |-> MAX_LIGHTS],
      [name |-> "u_lightPositions", type |-> "FLOAT_VEC3", size |-> MAX_LIGHTS],
      [name |-> "u_lightDirections", type |-> "FLOAT_VEC3", size |-> MAX_LIGHTS],
      [name |-> "u_lightColors", type |-> "FLOAT_VEC3", size |-> MAX_LIGHTS],
      [name |-> "u_lightIntensities", type |-> "FLOAT", size |-> MAX_LIGHTS],
      [name |-> "u_lightRanges", type |-> "FLOAT", size |-> MAX_LIGHTS],
      [name |-> "u_lightInnerCones", type |-> "FLOAT", size |-> MAX_LIGHTS],
      [name |-> "u_lightOuterCones", type |-> "FLOAT", size |-> MAX_LIGHTS],
      [name |-> "u_useIBL", type |-> "BOOL", size |-> 1],
      [name |-> "u_iblIntensity", type |-> "FLOAT", size |-> 1],
      [name |-> "u_ambientColor", type |-> "FLOAT_VEC3", size |-> 1],
      [name |-> "u_albedo", type |-> "FLOAT_VEC3", size |-> 1],
      [name |-> "u_metallic", type |-> "FLOAT", size |-> 1],
      [name |-> "u_roughness", type |-> "FLOAT", size |-> 1],
      [name |-> "u_ao", type |-> "FLOAT", size |-> 1] }

\* the eight per-index light arrays, in the order render() binds them
LightBases ==
    << "u_lightTypes", "u_lightPositions", "u_lightDirections",
       "u_lightColors", "u_lightIntensities", "u_lightRanges",
       "u_lightInnerCones", "u_lightOuterCones" >>

\* `${base}[${i}]`
LightName(base, i) == base \o "[" \o ToString(i) \o "]"

\* the light loop without its i < MAX_LIGHTS bound
ShaderLightCountUnclamped(numLights) == numLights

\* a light loop over every element of the light arrays
ShaderLightCountAll(numLights) == MAX_LIGHTS

\* number of iterations of the fragment shader's light loop
\*   for (int i = 0; i < u_numLights && i < MAX_LIGHTS; i++)
ShaderLightCount(numLights) ==
    Cardinality({i \in 0..(numLights - 1) : i < numLights /\ i < MAX_LIGHTS})

-----------------------------------------------------------------------------
(* UniformManager *)

\* gl.getActiveUniform(program, i).name: an active uniform array is
\* reported once, under the name of its first element
ActiveUniformName(d) == IF d.size > 1 THEN d.name \o "[0]" ELSE d.name

\* cacheUniforms(): one entry per active uniform of the linked program
CacheUniforms ==
    [n \in {ActiveUniformName(d) : d \in UniformDecls} |->
        (CHOOSE d \in UniformDecls : ActiveUniformName(d) = n).type]

\* hasUniform(name)
HasUniform(info, name) == name \in DOMAIN info

\* the gl.uniform* call setUniform dispatches to for a uniform of this type:
\* what the call does with the arguments the code passes
\*   res "ok": the value c is stored; "TypeError": the call throws;
\*   "INVALID_VALUE": the call flags a GL error and stores nothing
GLUniformCall(type, values) ==
    LET v0 == IF values = <<>> THEN Num(Undefined) ELSE values[1]
        vec(n) ==
            LET list ==
                    IF IsArray(v0) THEN v0.c
                    ELSE IF n = 3 /\ Truthy(v0) /\ IsObject(v0) /\ Length(v0) >= 3
                         THEN v0.c
                         ELSE ToFloats(values)
            IN  IF Len(list) = n THEN [res |-> "ok", c |-> list]
                ELSE [res |-> "INVALID_VALUE", c |-> <<>>]
        mat(n) ==
            IF ~IsObject(v0) THEN [res |-> "TypeError", c |-> <<>>]
            ELSE IF Length(v0) = n THEN [res |-> "ok", c |-> v0.c]
            ELSE [res |-> "INVALID_VALUE", c |-> <<>>]
    IN  CASE type = "FLOAT" -> [res |-> "ok", c |-> <<ToNumber(v0)>>]
          [] type = "FLOAT_VEC2" -> vec(2)
          [] type = "FLOAT_VEC3" -> vec(3)
          [] type = "FLOAT_VEC4" -> vec(4)
          [] type = "FLOAT_MAT3" -> mat(9)
          [] type = "FLOAT_MAT4" -> mat(16)
          [] type \in {"INT", "BOOL", "SAMPLER_2D", "SAMPLER_CUBE"} ->
                [res |-> "ok", c |-> <<ToNumber(v0)>>]
          [] OTHER -> [res |-> "unsupported", c |-> <<>>]

\* one entry of glLog
LogEntry(op, name, val, res, obj, snap) ==
    [op |-> op, name |-> name, val |-> val, res |-> res, obj |-> obj,
     snap |-> snap]

\* a catch block that rethrows
SetUniformRethrows(res) == TRUE

\* the catch block of setUniform: it logs the error of the gl call and
\* returns, so nothing is thrown to the caller
SetUniformCatch(res) == FALSE

\* an unknown name treated as a fatal error
UnknownUniformThrows(g, name) == [g EXCEPT !.threw = TRUE]

\* setUniform on a name with no cached location: console.warn, return
UnknownUniform(g, name) ==
    [g EXCEPT !.log = Append(@, LogEntry("warn", name, <<>>, "not found", 0, <<>>))]

\* setUniform on a cached name: the switch on info.type, in its try block
BindUniform(info, g, name, values) ==
    LET r == GLUniformCall(info[name], values)
        entry == LogEntry("uniform", name, r.c, r.res, 0, <<>>)
    IN  CASE r.res = "ok" ->
               [g EXCEPT !.bound[name] = r.c, !.log = Append(@, entry)]
          [] r.res = "INVALID_VALUE" ->
               [g EXCEPT !.err = TRUE, !.log = Append(@, entry)]
          [] r.res = "TypeError" ->
               [g EXCEPT !.log = Append(@, entry), !.threw = SetUniformCatch(r.res)]
          [] OTHER ->
               [g EXCEPT !.log = Append(@, LogEntry("warn", name, <<>>, r.res, 0, <<>>))]

\* setUniform(name, ...values) on the GL state g = [bound, err, log, threw]
SetUniform(info, g, name, values) ==
    IF ~HasUniform(info, name) THEN UnknownUniform(g, name)
    ELSE BindUniform(info, g, name, values)

-----------------------------------------------------------------------------
(* Materials, lights, camera *)

Material(albedo, metallic, roughness, ao) ==
    [albedo |-> albedo, metallic |-> metallic, roughness |-> roughness, ao |-> ao]

\* PBRRenderer.constructor: this.material
InitialMaterial == Material(<<70, 30, 30>>, 0, 50, 100)

\* PBRRenderer.constructor: this.ibl.ambientColor
InitialAmbient == Arr(<<10, 10, 15>>)

Light(type, position, direction, color, intensity, range, innerCone, outerCone) ==
    [type |-> type, position |-> position, direction |-> direction,
     color |-> color, intensity |-> intensity, range |-> range,
     innerCone |-> innerCone, outerCone |-> outerCone]

\* PBRRenderer.constructor: this.lights
DefaultLights ==
    << Light(0, <<0, 0, 0>>, <<-50, -100, -30>>, <<100, 95, 80>>, 300, 0, 0, 0),
       Light(1, <<300, 200, 200>>, <<0, 0, 0>>, <<100, 40, 20>>, 500, 800, 0, 0),
       Light(2, <<-200, 300, 100>>, <<30, -100, 20>>, <<20, 40, 100>>, 800, 1000, 1500, 2500) >>

\* a light list of length n: the default lights, cut or continued with
\* further point lights
LightList(n) == [i \in 1..n |-> IF i <= 3 THEN DefaultLights[i] ELSE DefaultLights[2]]

-----------------------------------------------------------------------------
(* Camera.  Lengths are in hundredths, angles in thousandths of a radian,   *)
(* Math.cos and Math.sin give thousandths, pointer coordinates are pixels.  *)

\* Math.PI, 2 * Math.PI and Math.PI / 2 in thousandths of a radian
Pi == 3142
TwoPi == 6283
HalfPi == 1571

Abs(x) == IF x < 0 THEN -x ELSE x
Sign(x) == IF x < 0 THEN -1 ELSE 1

\* the product of a length (or a value in thousandths) a by a value b in
\* thousandths, rounded to the nearest
Scale(a, b) == Sign(a) * Sign(b) * ((Abs(a) * Abs(b) + 500) \div 1000)

\* the sine series on 0 <= x <= HalfPi
SinSeries(x) ==
    LET x2 == (x * x) \div 1000
        t3 == (x * x2) \div 6000
        t5 == (t3 * x2) \div 20000
        t7 == (t5 * x2) \div 42000
        t9 == (t7 * x2) \div 72000
    IN  x - t3 + t5 - t7 + t9

\* Math.sin(a)
Sin(a) ==
    LET r == a % TwoPi
        half == IF r > Pi THEN r - Pi ELSE r
        s == IF half > HalfPi THEN SinSeries(Pi - half) ELSE SinSeries(half)
    IN  IF r > Pi THEN -s ELSE s

\* Math.cos(a)
Cos(a) == Sin(a + HalfPi)

\* a % m of JavaScript: the sign of the result is the sign of a
JsRem(a, m) == Sign(a) * (Abs(a) % m)

\* the constructor's interaction parameters
RotateSpeed == 5
ZoomSpeed == 10
MinRadius == 100
MaxRadius == 2000
MinElevation == 100 - HalfPi
MaxElevation == HalfPi - 100

\* the constructor's up vector
CameraUp == <<0, 100, 0>>

\* mat4.lookAt(viewMatrix, position, target, up), held by its arguments
LookAt(position, target, up) == position \o target \o up

\* a view matrix that is never recomputed
UpdateViewMatrixStale(c) == c

\* updateViewMatrix(): spherical to cartesian, position, view matrix
UpdateViewMatrix(c) ==
    LET x == Scale(Scale(c.radius, Cos(c.elevation)), Cos(c.azimuth))
        y == Scale(c.radius, Sin(c.elevation))
        z == Scale(Scale(c.radius, Cos(c.elevation)), Sin(c.azimuth))
        position == <<x + c.target[1], y + c.target[2], z + c.target[3]>>
    IN  [c EXCEPT !.position = position,
                  !.viewMatrix = LookAt(position, c.target, CameraUp)]

\* new Camera(canvas)
NewCamera ==
    UpdateViewMatrix(
        [position |-> <<0, 0, 500>>, target |-> <<0, 0, 0>>,
         radius |-> 500, azimuth |-> 0, elevation |-> 0,
         viewMatrix |-> <<>>,
         isMouseDown |-> FALSE, lastMouseX |-> 0, lastMouseY |-> 0])

\* this.camera before init() has created it
NoCamera == <<>>

\* a radius that is stored as requested
RadiusUnclamped(radius) == radius

\* Math.max(this.minRadius, Math.min(this.maxRadius, radius))
ClampRadius(radius) ==
    IF radius > MaxRadius THEN MaxRadius
    ELSE IF radius < MinRadius THEN MinRadius ELSE radius

\* an elevation that is stored as computed
ElevationUnclamped(elevation) == elevation

\* Math.max(this.minElevation, Math.min(this.maxElevation, this.elevation))
ClampElevation(elevation) ==
    IF elevation > MaxElevation THEN MaxElevation
    ELSE IF elevation < MinElevation THEN MinElevation ELSE elevation

\* the body of onMouseMove after its guard
MouseDrag(c, clientX, clientY) ==
    LET deltaX == clientX - c.lastMouseX
        deltaY == clientY - c.lastMouseY
        moved == [c EXCEPT
                    !.azimuth = JsRem(c.azimuth - deltaX * RotateSpeed, TwoPi),
                    !.elevation = ClampElevation(c.elevation - deltaY * RotateSpeed)]
    IN  [UpdateViewMatrix(moved) EXCEPT !.lastMouseX = clientX, !.lastMouseY = clientY]

\* the body of onTouchMove after its guard: the azimuth is not wrapped
TouchDrag(c, clientX, clientY) ==
    LET deltaX == clientX - c.lastMouseX
        deltaY == clientY - c.lastMouseY
        moved == [c EXCEPT
                    !.azimuth = c.azimuth - deltaX * RotateSpeed,
                    !.elevation = ClampElevation(c.elevation - deltaY * RotateSpeed)]
    IN  [UpdateViewMatrix(moved) EXCEPT !.lastMouseX = clientX, !.lastMouseY = clientY]

\* the body of onWheel
Wheel(c, deltaY) ==
    LET delta == IF deltaY > 0 THEN 1 ELSE -1
    IN  UpdateViewMatrix([c EXCEPT !.radius = ClampRadius(c.radius + delta * ZoomSpeed)])

\* mat4.perspective(fov, aspect, near, far), held by fov, near, far
CameraProjectionMatrix == Mat4(<<79, 10, 10000>>)

-----------------------------------------------------------------------------
(* MaterialEditor.setupPresets: this.presets *)

PresetNames ==
    { "Gold", "Silver", "Copper", "Iron", "Plastic Red", "Plastic Blue",
      "Rubber", "Ceramic", "Wood", "Glass" }

Presets ==
    [n \in PresetNames |->
        CASE n = "Gold" -> Material(<<100, 80, 10>>, 100, 10, 100)
          [] n = "Silver" -> Material(<<95, 95, 95>>, 100, 5, 100)
          [] n = "Copper" -> Material(<<95, 60, 40>>, 100, 15, 100)
          [] n = "Iron" -> Material(<<56, 56, 56>>, 100, 30, 100)
          [] n = "Plastic Red" -> Material(<<80, 20, 20>>, 0, 50, 100)
          [] n = "Plastic Blue" -> Material(<<20, 40, 80>>, 0, 30, 100)
          [] n = "Rubber" -> Material(<<10, 10, 10>>, 0, 90, 100)
          [] n = "Ceramic" -> Material(<<90, 90, 85>>, 0, 10, 100)
          [] n = "Wood" -> Material(<<60, 40, 20>>, 0, 80, 100)
          [] n = "Glass" -> Material(<<95, 95, 95>>, 0, 0, 100)]

-----------------------------------------------------------------------------
(* SceneObject, SceneManager *)

MeshNames == {"cube", "sphere", "plane", "cylinder"}

\* a transform argument: an absent property is <<>>
Transform(position, rotation, scale, rotationSpeed) ==
    [position |-> position, rotation |-> rotation, scale |-> scale,
     rotationSpeed |-> rotationSpeed]

\* vec3.fromValues(t?.[0] || d, t?.[1] || d, t?.[2] || d)
OrVec(t, d) == IF t = <<>> THEN <<d, d, d>> ELSE [i \in 1..3 |-> JsOr(t[i], d)]

\* updateMatrix(): T . Rx . Ry . Rz . S, held by position, rotation, scale
UpdateMatrix(o) == [o EXCEPT !.modelMatrix = o.position \o o.rotation \o o.scale]

\* new SceneObject(mesh, material, transform)
SceneObject(mesh, m, t) ==
    UpdateMatrix(
        [mesh |-> mesh,
         material |->
            Material(IF m.albedo = <<>> THEN <<70, 70, 70>> ELSE m.albedo,
                     JsOr(m.metallic, 0), JsOr(m.roughness, 50), JsOr(m.ao, 100)),
         position |-> OrVec(t.position, 0),
         rotation |-> OrVec(t.rotation, 0),
         scale |-> OrVec(t.scale, 100),
         rotationSpeed |-> IF t.rotationSpeed = <<>> THEN <<0, 0, 0>> ELSE t.rotationSpeed,
         modelMatrix |-> <<>>])

\* the array the new object's material.albedo is, for a material argument m
\* whose albedo is the array ref:  albedo: material.albedo || [0.7, 0.7, 0.7]
AlbedoRef(m, ref) == IF m.albedo = <<>> THEN "own" ELSE ref

\* an update that advances the rotation and leaves the model matrix as it was
ObjectUpdateStaleMatrix(o, deltaTime) ==
    [o EXCEPT !.rotation = [i \in 1..3 |-> @[i] + o.rotationSpeed[i] * deltaTime]]

\* SceneObject.update(deltaTime)
ObjectUpdate(o, deltaTime) ==
    UpdateMatrix(
        [o EXCEPT !.rotation = [i \in 1..3 |-> @[i] + o.rotationSpeed[i] * deltaTime]])

\* SceneManager.update(deltaTime)
SceneUpdate(objs, deltaTime) == [i \in 1..Len(objs) |-> ObjectUpdate(objs[i], deltaTime)]

\* the object init() and changeObjectShape() build
SingleObject(mesh, m) ==
    SceneObject(mesh, m, Transform(<<0, 0, 0>>, <<>>, <<>>, <<0, 50, 0>>))

\* createMaterialShowcase(meshes): the materials carry no ao
ShowcaseMaterials ==
    << Material(<<100, 80, 10>>, 100, 10, Undefined),
       Material(<<95, 95, 95>>, 100, 5, Undefined),
       Material(<<95, 60, 40>>, 100, 15, Undefined),
       Material(<<80, 20, 20>>, 0, 30, Undefined),
       Material(<<20, 40, 80>>, 0, 50, Undefined) >>

MaterialShowcase ==
    [i \in 1..Len(ShowcaseMaterials) |->
        SceneObject("sphere", ShowcaseMaterials[i],
                    Transform(<<((i - 1) - 2) * 250, 0, 0>>, <<>>, <<>>, <<0, 50, 0>>))]

\* createMixedScene(meshes)
MixedScene ==
    << SceneObject("sphere", Material(<<100, 80, 10>>, 100, 10, Undefined),
                   Transform(<<0, 0, 0>>, <<>>, <<>>, <<0, 100, 0>>)),
       SceneObject("cube", Material(<<80, 20, 20>>, 0, 40, Undefined),
                   Transform(<<-300, 0, 0>>, <<>>, <<>>, <<50, 50, 0>>)),
       SceneObject("cube", Material(<<20, 40, 80>>, 0, 60, Undefined),
                   Transform(<<300, 0, 0>>, <<>>, <<>>, <<-50, 50, 0>>)),
       SceneObject("plane", Material(<<30, 30, 30>>, 100, 80, Undefined),
                   Transform(<<0, -200, 0>>, <<-157, 0, 0>>, <<800, 100, 800>>, <<>>)) >>

-----------------------------------------------------------------------------
(* PBRRenderer.render: the statements of the try block, in order *)

Cmd(op, name, values, obj) == [op |-> op, name |-> name, values |-> values, obj |-> obj]
SetU(name, value) == Cmd("setUniform", name, <<value>>, 0)

PerObjectNames ==
    {"u_modelMatrix", "u_normalMatrix", "u_albedo", "u_metallic", "u_roughness", "u_ao"}

\* mat3.normalFromMat4(normalMatrix, modelMatrix): the inverse transpose of
\* the upper 3x3, which rotation and scale determine
NormalFromMat4(m) == SubSeq(m, 4, 9)

\* camera-derived uniforms
CameraCmds(cam) ==
    << SetU("u_viewMatrix", Mat4(cam.viewMatrix)),
       SetU("u_projectionMatrix", CameraProjectionMatrix),
       SetU("u_cameraPosition", Arr(cam.position)) >>

\* the body of the light loop for index i (0-based), light l
LightCmds(info, i, l) ==
    IF HasUniform(info, LightName("u_lightTypes", i))
    THEN << SetU(LightName("u_lightTypes", i), Num(l.type)),
            SetU(LightName("u_lightPositions", i), Arr(l.position)),
            SetU(LightName("u_lightDirections", i), Arr(l.direction)),
            SetU(LightName("u_lightColors", i), Arr(l.color)),
            SetU(LightName("u_lightIntensities", i), Num(l.intensity)),
            SetU(LightName("u_lightRanges", i), Num(l.range)),
            SetU(LightName("u_lightInnerCones", i), Num(l.innerCone)),
            SetU(LightName("u_lightOuterCones", i), Num(l.outerCone)) >>
    ELSE <<>>

RECURSIVE LightLoop(_, _, _)
\* for (let i = 0; i < this.lights.length; i++), from index i on
LightLoop(info, lts, i) ==
    IF i >= Len(lts) THEN <<>>
    ELSE LightCmds(info, i, lts[i + 1]) \o LightLoop(info, lts, i + 1)

\* u_numLights and the light loop
LightsCmds(info, lts) == <<SetU("u_numLights", Num(Len(lts)))>> \o LightLoop(info, lts, 0)

IblCmds(iblv) ==
    << SetU("u_useIBL", Num(IF iblv.enabled THEN 1 ELSE 0)),
       SetU("u_iblIntensity", Num(iblv.intensity)),
       SetU("u_ambientColor", iblv.ambientColor) >>

\* an object loop that binds the IBL toggle again for every object
ObjectCmdsRebindGlobal(o, i) ==
    << SetU("u_useIBL", Num(1)),
       SetU("u_modelMatrix", Mat4(o.modelMatrix)),
       SetU("u_normalMatrix", Mat3(NormalFromMat4(o.modelMatrix))),
       SetU("u_albedo", Arr(o.material.albedo)),
       SetU("u_metallic", Num(o.material.metallic)),
       SetU("u_roughness", Num(o.material.roughness)),
       SetU("u_ao", Num(o.material.ao)),
       Cmd("draw", o.mesh, <<>>, i) >>

\* an object loop that draws before it binds the object's material
ObjectCmdsDrawFirst(o, i) ==
    << SetU("u_modelMatrix", Mat4(o.modelMatrix)),
       SetU("u_normalMatrix", Mat3(NormalFromMat4(o.modelMatrix))),
       Cmd("draw", o.mesh, <<>>, i),
       SetU("u_albedo", Arr(o.material.albedo)),
       SetU("u_metallic", Num(o.material.metallic)),
       SetU("u_roughness", Num(o.material.roughness)),
       SetU("u_ao", Num(o.material.ao)) >>

\* the body of the object loop for the i-th scene object o
ObjectCmds(o, i) ==
    << SetU("u_modelMatrix", Mat4(o.modelMatrix)),
       SetU("u_normalMatrix", Mat3(NormalFromMat4(o.modelMatrix))),
       SetU("u_albedo", Arr(o.material.albedo)),
       SetU("u_metallic", Num(o.material.metallic)),
       SetU("u_roughness", Num(o.material.roughness)),
       SetU("u_ao", Num(o.material.ao)),
       Cmd("draw", o.mesh, <<>>, i) >>

RECURSIVE ObjectLoop(_, _)
\* for (const sceneObject of objects), from the i-th object on
ObjectLoop(objs, i) ==
    IF i > Len(objs) THEN <<>>
    ELSE ObjectCmds(objs[i], i) \o ObjectLoop(objs, i + 1)

\* a frame that binds the IBL uniforms after the object loop
FrameCmdsIblLast(info, cam, objs, iblv, lts) ==
    << Cmd("clear", "", <<>>, 0), Cmd("useProgram", "", <<>>, 0) >>
    \o CameraCmds(cam) \o LightsCmds(info, lts)
    \o ObjectLoop(objs, 1) \o IblCmds(iblv)
    \o << Cmd("checkGLError", "", <<>>, 0) >>

\* the try block of render() after update(): sceneManager is non-null
\* whenever render() runs, so the object loop is the branch taken
FrameCmds(info, cam, objs, iblv, lts) ==
    << Cmd("clear", "", <<>>, 0), Cmd("useProgram", "", <<>>, 0) >>
    \o CameraCmds(cam) \o LightsCmds(info, lts) \o IblCmds(iblv)
    \o ObjectLoop(objs, 1)
    \o << Cmd("checkGLError", "", <<>>, 0) >>

\* Mesh.render() of SceneObject.render(): one drawElements call, with the
\* per-object uniforms bound at that moment
MeshRender(loaded, g, cmd) ==
    IF ~loaded[cmd.name]
    THEN [g EXCEPT !.log = Append(@, LogEntry("warn", cmd.name, <<>>, "not loaded", cmd.obj, <<>>))]
    ELSE [g EXCEPT !.log = Append(@, LogEntry("draw", cmd.name, <<>>, "ok", cmd.obj,
                                              [n \in PerObjectNames |-> g.bound[n]]))]

\* checkGLError(gl, 'render'): gl.getError() returns and resets the error
\* flag; envErr is an error of the context itself (lost, out of memory)
CheckGLError(g, envErr) ==
    IF g.err \/ envErr
    THEN [g EXCEPT !.err = FALSE, !.threw = TRUE,
                   !.log = Append(@, LogEntry("getError", "", <<>>, "error", 0, <<>>))]
    ELSE [g EXCEPT !.log = Append(@, LogEntry("getError", "", <<>>, "NO_ERROR", 0, <<>>))]

\* one statement of the try block
Exec(info, loaded, envErr, g, cmd) ==
    CASE cmd.op = "setUniform" -> SetUniform(info, g, cmd.name, cmd.values)
      [] cmd.op = "draw" -> MeshRender(loaded, g, cmd)
      [] cmd.op = "checkGLError" -> CheckGLError(g, envErr)
      [] OTHER -> [g EXCEPT !.log = Append(@, LogEntry(cmd.op, "", <<>>, "ok", 0, <<>>))]

RECURSIVE Run(_, _, _, _, _)
\* the try block: a throw leaves the rest of the block unexecuted
\* (h and rest are the state and the statements left after one statement)
Run(info, loaded, envErr, g, cmds) ==
    IF cmds = <<>> \/ g.threw THEN g
    ELSE CHOOSE r \in {Run(info, loaded, envErr, h, rest) :
                          h \in {Exec(info, loaded, envErr, g, Head(cmds))},
                          rest \in {Tail(cmds)}} : TRUE

\* the try block of render() after update(), over the updated objects and
\* the uniforms b and error flag err the context holds: the GL state after it
TryBlock(info, cam, loaded, envErr, b, err, objs, iblv, lts) ==
    CHOOSE g \in {Run(info, loaded, envErr,
                      [bound |-> b, err |-> err, log |-> <<>>, threw |-> FALSE], cmds) :
                     cmds \in {FrameCmds(info, cam, objs, iblv, lts)}} : TRUE

\* the catch block of render(): displayError('Render error: ...')
RenderCatch(threw, shown) == IF threw THEN "render" ELSE shown

\* a render() that requests a frame in the try block and again after it
RenderScheduleTwice(threw) == 2

\* a render() that schedules its successor inside the try block only
RenderScheduleInTry(threw) == IF threw THEN 0 ELSE 1

\* requestAnimationFrame(() => this.render()) after the try/catch: the
\* number of callbacks it leaves scheduled
RenderSchedule(threw) == 1

-----------------------------------------------------------------------------
(* PBRRenderer.init *)

RendererFields ==
    {"canvas", "gl", "shaderProgram", "uniformManager", "camera", "meshes",
     "sceneManager", "materialEditor"}

\* what can fail in init(): the canvas lookup, createWebGLContext, and in
\* createShaderProgram the two compileShader calls and the link
InitFailures == {"none", "canvas", "context", "vertex", "fragment", "link"}
ShaderFailures == {"vertex", "fragment", "link"}

\* the statements of init()'s try block, in order
InitStepNo(step) ==
    CASE step = "canvas" -> 1
      [] step = "gl" -> 2
      [] step = "shaderProgram" -> 3
      [] step = "uniformManager" -> 4
      [] step = "camera" -> 5
      [] step = "meshes" -> 6
      [] step = "sceneManager" -> 7
      [] step = "materialEditor" -> 8
      [] step = "render" -> 9

\* the statement that throws
InitFailStep(fail) ==
    CASE fail = "canvas" -> 1
      [] fail = "context" -> 2
      [] fail \in ShaderFailures -> 3
      [] OTHER -> 10

\* an init() that goes on after a shader failure
InitCompletesDespiteShader(fail, step) ==
    \/ InitStepNo(step) < InitFailStep(fail)
    \/ fail \in ShaderFailures /\ InitStepNo(step) > InitStepNo("shaderProgram")

\* a throw leaves the rest of the try block unexecuted
InitCompletes(fail, step) == InitStepNo(step) < InitFailStep(fail)

\* an init() whose catch block rethrows
InitCatchRethrows(fail) == IF fail = "none" THEN "normal" ELSE "threw"

\* how init() completes: its catch block calls displayError and
\* console.error and does not rethrow
InitCatch(fail) == "normal"

\* one GL call of createShaderProgram on a shader or program object
ShaderEntry(op, obj) == [op |-> op, obj |-> obj]

\* compileShader(gl, source, type), ok being the shader's COMPILE_STATUS:
\* a shader that does not compile is deleted and an Error is thrown
CompileShader(log, type, ok) ==
    IF ok THEN [log |-> Append(log, ShaderEntry("createShader", type)), threw |-> FALSE]
    ELSE [log |-> log \o <<ShaderEntry("createShader", type),
                           ShaderEntry("deleteShader", type)>>,
          threw |-> TRUE]

\* createShaderProgram(gl, vertexSource, fragmentSource), where fail names
\* the step that fails: a throw of compileShader leaves the function at once
CreateShaderProgram(fail) ==
    LET v == CompileShader(<<>>, "VERTEX_SHADER", fail # "vertex")
        f == IF v.threw THEN v
             ELSE CompileShader(v.log, "FRAGMENT_SHADER", fail # "fragment")
    IN  IF f.threw THEN f
        ELSE IF fail = "link"
        THEN [log |-> f.log \o <<ShaderEntry("createProgram", "program"),
                                 ShaderEntry("deleteProgram", "program"),
                                 ShaderEntry("deleteShader", "VERTEX_SHADER"),
                                 ShaderEntry("deleteShader", "FRAGMENT_SHADER")>>,
              threw |-> TRUE]
        ELSE [log |-> f.log \o <<ShaderEntry("createProgram", "program"),
                                 ShaderEntry("deleteShader", "VERTEX_SHADER"),
                                 ShaderEntry("deleteShader", "FRAGMENT_SHADER")>>,
              threw |-> FALSE]

\* no setUniform call from outside render() was the last handler
NoCall == [called |-> FALSE, name |-> "", threw |-> FALSE]

\* init(), with the first render() it calls
InitRenderer(fail, envErr) ==
    /\ ~init.called
    /\ LET r == [f \in RendererFields |-> InitCompletes(fail, f)]
           info == IF r.uniformManager THEN CacheUniforms ELSE <<>>
           objs == IF r.sceneManager THEN <<SingleObject("sphere", material)>> ELSE <<>>
           loaded == [m \in MeshNames |-> r.meshes]
           objs2 == SceneUpdate(objs, 0)
           cam == IF r.camera THEN NewCamera ELSE NoCamera
           g == TryBlock(info, cam, loaded, envErr, [n \in DOMAIN info |-> <<>>], FALSE,
                         objs2, ibl, lights)
           runs == InitCompletes(fail, "render")
       IN  /\ init' = [called |-> TRUE, error |-> fail, returned |-> InitCatch(fail)]
           /\ renderer' = r
           /\ uniformInfo' = info
           /\ camera' = cam
           /\ meshLoaded' = loaded
           /\ objects' = IF runs THEN objs2 ELSE objs
           /\ albedoRef' = [i \in 1..Len(objs) |-> AlbedoRef(material, "renderer")]
           /\ bound' = IF runs THEN g.bound ELSE [n \in DOMAIN info |-> <<>>]
           /\ glError' = IF runs THEN g.err ELSE FALSE
           /\ glLog' = IF runs THEN g.log ELSE <<>>
           /\ lastTime' = 0
           /\ rafPending' = IF runs THEN RenderSchedule(g.threw) ELSE 0
           /\ errorDisplay' =
                IF fail # "none" THEN "init"
                ELSE IF runs THEN RenderCatch(g.threw, "none") ELSE "none"
           /\ lastCall' = NoCall
           /\ activeObjectIndex' = 0
           /\ shaderLog' = IF InitCompletes(fail, "gl") THEN CreateShaderProgram(fail).log
                           ELSE <<>>
    /\ UNCHANGED <<material, ibl, lights, cameraEvents>>
    /\ UNCHANGED meshVars
    /\ UNCHANGED shaderVars
    /\ UNCHANGED factoryVars

-----------------------------------------------------------------------------
(* The frame callback *)

Min(a, b) == IF a < b THEN a ELSE b
Max(a, b) == IF a > b THEN a ELSE b

\* the requestAnimationFrame callback: render()
Render(now, envErr) ==
    /\ rafPending > 0
    /\ UNCHANGED <<init, renderer, uniformInfo, material, ibl, lights, albedoRef,
                   meshLoaded>>
    /\ lastCall' = NoCall
    /\ lastTime' = now
    /\ objects' = SceneUpdate(objects, now - lastTime)
    /\ UNCHANGED others
    /\ \E g \in {TryBlock(uniformInfo, camera, meshLoaded, envErr, bound, glError,
                          objects', ibl, lights)} :
           /\ bound' = g.bound
           /\ glError' = g.err
           /\ glLog' = g.log
           /\ errorDisplay' = RenderCatch(g.threw, errorDisplay)
           /\ rafPending' = (rafPending - 1) + RenderSchedule(g.threw)

-----------------------------------------------------------------------------
(* MaterialEditor *)

\* updateMaterial(): every scene object gets a copy of the renderer's material
UpdateMaterial(objs, m) == [i \in 1..Len(objs) |-> [objs[i] EXCEPT !.material = m]]

\* the roughness slider (0 to 1 in steps of 0.01) set to v, then its
\* onChange: updateMaterial()
SetRoughness(v) ==
    /\ renderer.materialEditor
    /\ material' = [material EXCEPT !.roughness = v]
    /\ objects' = UpdateMaterial(objects, material')
    /\ albedoRef' = [i \in 1..Len(objects) |-> "own"]
    /\ glLog' = <<>>
    /\ lastCall' = NoCall
    /\ UNCHANGED others
    /\ UNCHANGED <<init, renderer, uniformInfo, ibl, lights, meshLoaded, lastTime,
                   bound, glError, rafPending, errorDisplay>>

\* a loadPreset that writes the renderer's material and leaves the scene
\* objects the material the renderer had
PresetFieldsDeferred(m, objs, presetName) ==
    [material |-> Presets[presetName],
     objects |-> [i \in 1..Len(objs) |-> [objs[i] EXCEPT !.material = m]]]

\* the assignments of loadPreset: the four fields of the renderer's material
\* m and of the material of every scene object of objs
PresetFields(m, objs, presetName) ==
    [material |-> [m EXCEPT !.albedo = Presets[presetName].albedo,
                            !.metallic = Presets[presetName].metallic,
                            !.roughness = Presets[presetName].roughness,
                            !.ao = Presets[presetName].ao],
     objects |-> [i \in 1..Len(objs) |->
                    [objs[i] EXCEPT !.material.albedo = Presets[presetName].albedo,
                                    !.material.metallic = Presets[presetName].metallic,
                                    !.material.roughness = Presets[presetName].roughness,
                                    !.material.ao = Presets[presetName].ao]]]

\* loadPreset(presetName)
LoadPreset(presetName) ==
    /\ renderer.materialEditor
    /\ presetName \in DOMAIN Presets
    /\ material' = PresetFields(material, objects, presetName).material
    /\ objects' = PresetFields(material, objects, presetName).objects
    /\ albedoRef' = [i \in 1..Len(objects) |-> "own"]
    /\ glLog' = <<>>
    /\ lastCall' = NoCall
    /\ UNCHANGED others
    /\ UNCHANGED <<init, renderer, uniformInfo, ibl, lights, meshLoaded, lastTime,
                   bound, glError, rafPending, errorDisplay>>

\* a controller of the material or of the main light writes its property,
\* leaving the renderer's material m and the lights lts, then its onChange
\* runs updateMaterial()
EditorWrite(m, lts) ==
    /\ renderer.materialEditor
    /\ material' = m
    /\ lights' = lts
    /\ objects' = UpdateMaterial(objects, m)
    /\ albedoRef' = [i \in 1..Len(objects) |-> "own"]
    /\ glLog' = <<>>
    /\ lastCall' = NoCall
    /\ UNCHANGED others
    /\ UNCHANGED <<init, renderer, uniformInfo, ibl, meshLoaded, lastTime,
                   bound, glError, rafPending, errorDisplay>>

\* the metallic slider (0 to 1 in steps of 0.01) set to v
SetMetallic(v) == EditorWrite([material EXCEPT !.metallic = v], lights)

\* the ambient occlusion slider (0 to 1 in steps of 0.01) set to v
SetAo(v) == EditorWrite([material EXCEPT !.ao = v], lights)

\* the colour picker of addColor(material, 'albedo'): dat.GUI reads an array
\* value as RGB components on the scale 0 to 255 and assigns a new array
\* [r, g, b] on that scale
PickAlbedo(rgb) == EditorWrite([material EXCEPT !.albedo = rgb], lights)

\* the intensity slider of the main light (0 to 10 in steps of 0.1) set to
\* v; the controller exists when the light list was not empty
SetLightIntensity(v) ==
    /\ Len(lights) > 0
    /\ EditorWrite(material, [lights EXCEPT ![1].intensity = v])

Shapes == {"Sphere", "Cube", "Cylinder", "Plane"}

\* the switch of changeObjectShape
MeshForShape(shape) ==
    CASE shape = "Sphere" -> "sphere"
      [] shape = "Cube" -> "cube"
      [] shape = "Cylinder" -> "cylinder"
      [] shape = "Plane" -> "plane"
      [] OTHER -> "sphere"

\* changeObjectShape(shape)
ChangeObjectShape(shape) ==
    /\ renderer.materialEditor
    /\ renderer.sceneManager
    /\ objects' = <<SingleObject(MeshForShape(shape), material)>>
    /\ albedoRef' = <<AlbedoRef(material, "renderer")>>
    /\ glLog' = <<>>
    /\ lastCall' = NoCall
    /\ UNCHANGED others
    /\ UNCHANGED <<init, renderer, uniformInfo, material, ibl, lights, meshLoaded,
                   lastTime, bound, glError, rafPending, errorDisplay>>

-----------------------------------------------------------------------------
(* SceneManager's predefined scenes *)

CreateMaterialShowcase ==
    /\ renderer.sceneManager
    /\ objects' = MaterialShowcase
    /\ albedoRef' = [i \in 1..Len(ShowcaseMaterials) |-> AlbedoRef(ShowcaseMaterials[i], "own")]
    /\ glLog' = <<>>
    /\ lastCall' = NoCall
    /\ UNCHANGED others
    /\ UNCHANGED <<init, renderer, uniformInfo, material, ibl, lights, meshLoaded,
                   lastTime, bound, glError, rafPending, errorDisplay>>

CreateMixedScene ==
    /\ renderer.sceneManager
    /\ objects' = MixedScene
    /\ albedoRef' = [i \in 1..Len(MixedScene) |-> "own"]
    /\ glLog' = <<>>
    /\ lastCall' = NoCall
    /\ UNCHANGED others
    /\ UNCHANGED <<init, renderer, uniformInfo, material, ibl, lights, meshLoaded,
                   lastTime, bound, glError, rafPending, errorDisplay>>

-----------------------------------------------------------------------------
(* A call of UniformManager.setUniform from outside render() *)

CallSetUniform(name, values) ==
    /\ renderer.uniformManager
    /\ LET g == SetUniform(uniformInfo,
                           [bound |-> bound, err |-> glError, log |-> <<>>, threw |-> FALSE],
                           name, values)
       IN  /\ bound' = g.bound
           /\ glError' = g.err
           /\ glLog' = g.log
           /\ lastCall' = [called |-> TRUE, name |-> name, threw |-> g.threw]
    /\ UNCHANGED others
    /\ UNCHANGED <<init, renderer, uniformInfo, material, ibl, lights, objects,
                   albedoRef, meshLoaded, lastTime, rafPending, errorDisplay>>

-----------------------------------------------------------------------------
(* SceneManager's methods on the object list.  activeObjectIndex counts    *)
(* from 0 as in the source; objects[k] of the model is this.objects[k-1].  *)

Null == <<>>

\* getActiveObject(): this.objects[this.activeObjectIndex] || null
GetActiveObject(objs, idx) ==
    IF idx >= 0 /\ idx < Len(objs) THEN objs[idx + 1] ELSE Null

\* a.splice(index, 1) on a list
Splice(a, index) == [k \in 1..(Len(a) - 1) |-> IF k <= index THEN a[k] ELSE a[k + 1]]

\* a handler that leaves the scene as objs, refs and the index as idx
SceneCall(objs, refs, idx) ==
    /\ renderer.sceneManager
    /\ objects' = objs
    /\ albedoRef' = refs
    /\ activeObjectIndex' = idx
    /\ glLog' = <<>>
    /\ lastCall' = NoCall
    /\ UNCHANGED <<init, renderer, uniformInfo, material, ibl, lights, meshLoaded,
                   lastTime, bound, glError, rafPending, errorDisplay>>
    /\ UNCHANGED <<camera, cameraEvents, shaderLog>>
    /\ UNCHANGED meshVars
    /\ UNCHANGED shaderVars
    /\ UNCHANGED factoryVars

\* addObject(sceneObject)
AddObject(o) ==
    /\ Len(objects) < MaxObjects
    /\ SceneCall(Append(objects, o), Append(albedoRef, "own"), activeObjectIndex)

\* removeObject(index)
RemoveObject(index) ==
    IF index >= 0 /\ index < Len(objects)
    THEN LET objs == Splice(objects, index)
         IN  SceneCall(objs, Splice(albedoRef, index),
                       IF activeObjectIndex >= Len(objs)
                       THEN Max(0, Len(objs) - 1) ELSE activeObjectIndex)
    ELSE SceneCall(objects, albedoRef, activeObjectIndex)

\* setActiveObject(index)
SetActiveObject(index) ==
    /\ renderer.sceneManager
    /\ SceneCall(objects, albedoRef,
                 IF index >= 0 /\ index < Len(objects) THEN index ELSE activeObjectIndex)

-----------------------------------------------------------------------------
(* setUniform on float vector uniforms *)

\* the cached table of a UniformManager over a program that declares one
\* uniform of each float vector type
VectorUniformInfo ==
    [n \in {"u_vec2", "u_vec3", "u_vec4"} |->
        CASE n = "u_vec2" -> "FLOAT_VEC2"
          [] n = "u_vec3" -> "FLOAT_VEC3"
          [] n = "u_vec4" -> "FLOAT_VEC4"]

\* the number of components of the uniform
VectorSize(name) ==
    CASE name = "u_vec2" -> 2
      [] name = "u_vec3" -> 3
      [] name = "u_vec4" -> 4

\* how the caller passes the components: as separate arguments, as one
\* plain array, as one typed array (a Float32Array, a gl-matrix vector)
VectorForms == {"separate", "array", "typed"}

\* the rest arguments ...values of the call
VectorValues(form, comps) ==
    CASE form = "separate" -> [i \in DOMAIN comps |-> Num(comps[i])]
      [] form = "array" -> <<Arr(comps)>>
      [] form = "typed" -> <<F32(comps)>>

NoVecCall == <<>>

\* uniformManager.setUniform(vecCall.name, ...values)
SetVectorUniform ==
    /\ vecCall # NoVecCall
    /\ glLog = <<>>
    /\ LET g == SetUniform(uniformInfo,
                           [bound |-> bound, err |-> glError, log |-> <<>>, threw |-> FALSE],
                           vecCall.name, VectorValues(vecCall.form, vecCall.comps))
       IN  /\ bound' = g.bound
           /\ glError' = g.err
           /\ glLog' = g.log
           /\ lastCall' = [called |-> TRUE, name |-> vecCall.name, threw |-> g.threw]
    /\ UNCHANGED others
    /\ UNCHANGED <<init, renderer, uniformInfo, material, ibl, lights, objects,
                   albedoRef, meshLoaded, lastTime, rafPending, errorDisplay>>

-----------------------------------------------------------------------------
(* The fragment shader.  Numbers without unit (colours, cosines, material  *)
(* fields, attenuation) are in thousandths; lengths and light intensities  *)
(* in hundredths and cone angles in hundredths of a degree, as the         *)
(* renderer holds them.  One colour channel stands for the three, which    *)
(* the shader treats alike.                                                *)

\* clamp(x, lo, hi)
Clamp(x, lo, hi) == Max(lo, Min(hi, x))

\* pow(x, 5.0)
Pow5(x) == Scale(Scale(Scale(x, x), Scale(x, x)), x)

\* mix(a, b, t)
Mix(a, b, t) == Scale(a, 1000 - t) + Scale(b, t)

\* radians(degrees), from hundredths of a degree to thousandths of a radian
Radians(degrees) == (degrees * Pi) \div 18000

\* fresnelSchlick(cosTheta, F0)
FresnelSchlick(cosTheta, F0) ==
    F0 + Scale(1000 - F0, Pow5(Clamp(1000 - cosTheta, 0, 1000)))

\* fresnelSchlickRoughness(cosTheta, F0, roughness)
FresnelSchlickRoughness(cosTheta, F0, roughness) ==
    F0 + Scale(Max(1000 - roughness, F0) - F0, Pow5(Clamp(1000 - cosTheta, 0, 1000)))

\* the Hermite interpolation of smoothstep, t * t * (3 - 2 t) with
\* t = clamp((x - edge0) / (edge1 - edge0), 0, 1), for edge0 # edge1
Hermite(edge0, edge1, x) ==
    LET num == IF edge1 > edge0 THEN x - edge0 ELSE edge0 - x
        den == Abs(edge1 - edge0)
        t == Clamp(Sign(num) * ((Abs(num) * 1000) \div den), 0, 1000)
    IN  Scale(Scale(t, t), 3000 - 2 * t)

\* what an implementation may return for smoothstep with edge0 >= edge1
SmoothstepUndefined == {"formula", "zero", "one"}

\* smoothstep(edge0, edge1, x).  GLSL defines the result for edge0 < edge1
\* only; for edge0 >= edge1 it is undefined, and undef names what this
\* implementation returns: the value of the interpolation formula evaluated
\* as it stands (where it has one), 0.0, or 1.0
Smoothstep(edge0, edge1, x, undef) ==
    IF edge0 < edge1 THEN Hermite(edge0, edge1, x)
    ELSE CASE undef = "formula" /\ edge0 # edge1 -> Hermite(edge0, edge1, x)
           [] undef = "one" -> 1000
           [] OTHER -> 0

\* lightIntensity / (distance * distance)
InverseSquare(intensity, distance) == (intensity * 100000) \div (distance * distance)

\* smoothstep(outerCos, innerCos, cosTheta) of a spot light
ConeAttenuation(f) ==
    Smoothstep(Cos(Radians(f.outerCone)), Cos(Radians(f.innerCone)), f.cosTheta, f.undef)

\* an attenuation that is the light's intensity, whatever its type
LightAttenuationByIntensity(f) == f.intensity * 10

\* the attenuation calculateLightContribution computes for the light's type
LightAttenuation(f) ==
    CASE f.lightType = 1 ->
           Scale(InverseSquare(f.intensity, f.distance),
                 Smoothstep(f.range, f.range \div 2, f.distance, f.undef))
      [] f.lightType = 2 ->
           Scale(Scale(InverseSquare(f.intensity, f.distance),
                       Smoothstep(f.range, f.range \div 2, f.distance, f.undef)),
                 ConeAttenuation(f))
      [] OTHER -> 1000

\* a diffuse weight that the Fresnel term alone decides
DiffuseWeightFresnelOnly(F, metallic) == 1000 - F

\* kD = vec3(1.0) - kS; kD *= 1.0 - metallic
DiffuseWeight(F, metallic) == Scale(1000 - F, 1000 - metallic)

\* a base reflectance that is the dielectric one for every material
BaseReflectivityDielectric(f) == 40

\* F0 = mix(vec3(0.04), albedo, metallic)
BaseReflectivity(f) == Mix(40, f.albedo, f.metallic)

\* calculateLightContribution for one light: its attenuation, the diffuse
\* weight and term, and the value returned; the specular term is f.specular
CalculateLightContribution(f) ==
    LET attenuation == LightAttenuation(f)
        F == FresnelSchlick(f.HdotV, BaseReflectivity(f))
        kD == DiffuseWeight(F, f.metallic)
        diffuse == (Scale(kD, f.albedo) * 1000) \div Pi
        radiance == Scale(f.lightColor, attenuation)
    IN  IF attenuation < 1
        THEN [attenuation |-> attenuation, returnedEarly |-> TRUE,
              kD |-> 0, diffuse |-> 0, out |-> 0]
        ELSE [attenuation |-> attenuation, returnedEarly |-> FALSE,
              kD |-> kD, diffuse |-> diffuse,
              out |-> Scale(Scale(diffuse + f.specular, radiance), f.NdotL)]

\* the ambient term of main(): with IBL, its diffuse part kD * diffuse and
\* the whole; without, the fallback ambient colour
Ambient(f) ==
    LET F == FresnelSchlickRoughness(f.NdotV, BaseReflectivity(f), f.roughness)
        kD == DiffuseWeight(F, f.metallic)
        diffuse == Scale(f.irradiance, f.albedo)
        specular == Scale(f.prefilteredColor, F)
    IN  IF f.useIBL
        THEN [diffuse |-> Scale(kD, diffuse),
              out |-> Scale(Scale(Scale(kD, diffuse) + specular, f.ao), f.iblIntensity)]
        ELSE [diffuse |-> Scale(f.ambientColor, f.albedo),
              out |-> Scale(Scale(f.ambientColor, f.albedo), f.ao)]

RECURSIVE FifthRootIn(_, _, _)
\* the largest r of lo..hi with r^5 <= x
FifthRootIn(x, lo, hi) ==
    IF lo >= hi THEN lo
    ELSE LET mid == (lo + hi + 1) \div 2
         IN  IF Pow5(mid) <= x THEN FifthRootIn(x, mid, hi)
             ELSE FifthRootIn(x, lo, mid - 1)

\* pow(c, vec3(2.2)) for 0 <= c <= 1, as c^2 * c^(1/5)
GammaDecode(c) == Scale(Scale(c, c), FifthRootIn(c, 0, 1000))

RECURSIVE GammaEncodeIn(_, _, _)
\* the largest r of lo..hi with r^2.2 <= c
GammaEncodeIn(c, lo, hi) ==
    IF lo >= hi THEN lo
    ELSE LET mid == (lo + hi + 1) \div 2
         IN  IF GammaDecode(mid) <= c THEN GammaEncodeIn(c, mid, hi)
             ELSE GammaEncodeIn(c, lo, mid - 1)

\* pow(color, vec3(1.0/2.2)) for 0 <= color <= 1
GammaEncode(c) == GammaEncodeIn(c, 0, 1000)

\* color / (color + vec3(1.0))
Reinhard(c) == (c * 1000) \div (c + 1000)

\* main() on fragment f, whose light arrays hold f's light at every index:
\* F0, the light loop's sum Lo, the ambient term, and fragColor
Shade(f) ==
    LET light == CalculateLightContribution(f)
        ambient == Ambient(f)
        Lo == ShaderLightCount(f.numLights) * light.out
    IN  [light |-> light, ambient |-> ambient, F0 |-> BaseReflectivity(f),
         Lo |-> Lo, fragColor |-> GammaEncode(Reinhard(ambient.out + Lo))]

NoFragment == <<>>
NoShade == <<>>

\* the shader runs on the fragment
ShadeFragment ==
    /\ fragment # NoFragment
    /\ shaded = NoShade
    /\ shaded' = Shade(fragment)
    /\ UNCHANGED fragment
    /\ UNCHANGED <<init, renderer, uniformInfo, material, ibl, lights, objects,
                   albedoRef, meshLoaded, lastTime, bound, glError, glLog,
                   rafPending, errorDisplay, lastCall, camera, cameraEvents>>
    /\ UNCHANGED meshVars
    /\ UNCHANGED <<activeObjectIndex, shaderLog>>
    /\ UNCHANGED factoryVars

-----------------------------------------------------------------------------
(* Mesh: GPU resources of one mesh, from construction to disposal *)

\* null, for a field that holds a WebGL object
NullHandle == 0

\* new Mesh(gl)
NewMesh ==
    [vertexArray |-> NullHandle, vertexBuffer |-> NullHandle,
     indexBuffer |-> NullHandle, indexCount |-> 0]

\* a call on the GL context or the console, with the WebGL object it names
GlEntry(op, h) == [op |-> op, h |-> h]

\* the number of WebGL objects created so far; the next one is a new object
Created(log) ==
    Cardinality({k \in DOMAIN log : log[k].op \in {"createVertexArray", "createBuffer"}})

\* loadFromData(vertices, indices) with indices.length = indices
LoadFromData(m, log, indices) ==
    LET va == Created(log) + 1
        vb == Created(log) + 2
        ib == Created(log) + 3
    IN  [mesh |-> [vertexArray |-> va, vertexBuffer |-> vb, indexBuffer |-> ib,
                   indexCount |-> indices],
         log |-> log \o << GlEntry("createVertexArray", va),
                           GlEntry("createBuffer", vb),
                           GlEntry("createBuffer", ib) >>]

\* Mesh.render(): the warning and early return, or the draw call
RenderMesh(m, log) ==
    IF m.vertexArray = NullHandle
    THEN [mesh |-> m, log |-> Append(log, GlEntry("warn", NullHandle))]
    ELSE [mesh |-> m, log |-> Append(log, GlEntry("drawElements", m.vertexArray))]

\* a dispose that deletes the objects and keeps the fields
DisposeKeepsHandles(m, log) ==
    [mesh |-> m,
     log |-> log \o << GlEntry("deleteVertexArray", m.vertexArray),
                       GlEntry("deleteBuffer", m.vertexBuffer),
                       GlEntry("deleteBuffer", m.indexBuffer) >>]

\* Mesh.dispose(): each non-null field is deleted and set to null
Dispose(m, log) ==
    [mesh |-> [m EXCEPT !.vertexArray = NullHandle, !.vertexBuffer = NullHandle,
                        !.indexBuffer = NullHandle],
     log |-> log
             \o (IF m.vertexArray # NullHandle
                 THEN <<GlEntry("deleteVertexArray", m.vertexArray)>> ELSE <<>>)
             \o (IF m.vertexBuffer # NullHandle
                 THEN <<GlEntry("deleteBuffer", m.vertexBuffer)>> ELSE <<>>)
             \o (IF m.indexBuffer # NullHandle
                 THEN <<GlEntry("deleteBuffer", m.indexBuffer)>> ELSE <<>>)]

\* a method of the Mesh is called and leaves r.mesh and r.log
MeshCall(method, r) ==
    /\ Len(meshCalls) < MaxMeshCalls
    /\ meshObj' = r.mesh
    /\ meshLog' = r.log
    /\ meshCalls' = Append(meshCalls, method)
    /\ UNCHANGED <<init, renderer, uniformInfo, material, ibl, lights, objects,
                   albedoRef, meshLoaded, lastTime, bound, glError, glLog,
                   rafPending, errorDisplay, lastCall, camera, cameraEvents>>
    /\ UNCHANGED shaderVars
    /\ UNCHANGED <<activeObjectIndex, shaderLog>>
    /\ UNCHANGED factoryVars

\* the static factories (createCube, createSphere, createPlane,
\* createCylinder) call loadFromData once, on the Mesh they have just built
MeshLoadFromData(indices) ==
    /\ meshCalls = <<>>
    /\ MeshCall("loadFromData", LoadFromData(meshObj, meshLog, indices))

MeshRenderCall == MeshCall("render", RenderMesh(meshObj, meshLog))

MeshDispose == MeshCall("dispose", Dispose(meshObj, meshLog))

-----------------------------------------------------------------------------
(* Mesh's static factories: the number of vertices (vertices.length / 8,   *)
(* eight floats a vertex) and the index list each one builds               *)

\* new Uint16Array(indices): every element is taken modulo 2^16
Uint16Array(indices) == [k \in DOMAIN indices |-> indices[k] % 65536]

\* createCube: four vertices for each of the six faces
CubeVertexCount == Cardinality((1..6) \X (1..4))

CubeIndices ==
    << 0, 1, 2, 0, 2, 3,
       4, 5, 6, 4, 6, 7,
       8, 9, 10, 8, 10, 11,
       12, 13, 14, 12, 14, 15,
       16, 17, 18, 16, 18, 19,
       20, 21, 22, 20, 22, 23 >>

\* createPlane: the four corners
PlaneVertexCount == Cardinality({<<-1, -1>>, <<1, -1>>, <<1, 1>>, <<-1, 1>>})

PlaneIndices == << 0, 1, 2, 0, 2, 3 >>

\* createSphere: for (lat = 0; lat <= segments; lat++)
\*                  for (lon = 0; lon <= segments; lon++) one vertex
SphereVertexCount(segments) == Cardinality((0..segments) \X (0..segments))

\* an index loop over lat = 0..segments, one row too many
SphereIndexRowsInclusive(segments) == segments + 1

\* the rows of the index loop: for (lat = 0; lat < segments; lat++)
SphereIndexRows(segments) == segments

\* the two triangles pushed for (lat, lon)
SphereQuad(segments, lat, lon) ==
    LET first == (lat * (segments + 1)) + lon
        second == first + segments + 1
    IN  << first, second, first + 1, second, second + 1, first + 1 >>

\* createSphere: the index loops, lon = 0..segments-1 within each row
SphereIndices(segments) ==
    [k \in 1..(6 * SphereIndexRows(segments) * segments) |->
        SphereQuad(segments, ((k - 1) \div 6) \div segments,
                   ((k - 1) \div 6) % segments)[((k - 1) % 6) + 1]]

\* createCylinder: four vertices for each i = 0..segments, then the two
\* cap centres
CylinderVertexCount(segments) == Cardinality((0..segments) \X (1..4)) + 2

\* createCylinder: the side quad of segment i
CylinderSide(segments, i) ==
    LET sideTopA == (i * 4) + 2
        sideBottomA == (i * 4) + 3
        sideTopB == ((i + 1) % segments) * 4 + 2
        sideBottomB == ((i + 1) % segments) * 4 + 3
    IN  << sideTopA, sideBottomA, sideTopB, sideBottomA, sideBottomB, sideTopB >>

\* createCylinder: the sides, the top cap, the bottom cap
CylinderIndices(segments) ==
    LET ringVertCount == (segments + 1) * 4
        topCenterIndex == ringVertCount
        bottomCenterIndex == topCenterIndex + 1
        sides == [k \in 1..(6 * segments) |->
                    CylinderSide(segments, (k - 1) \div 6)[((k - 1) % 6) + 1]]
        top == [k \in 1..(3 * segments) |->
                  LET i == (k - 1) \div 3
                  IN  << topCenterIndex, i * 4 + 0, (i + 1) * 4 + 0 >>[((k - 1) % 3) + 1]]
        bottom == [k \in 1..(3 * segments) |->
                     LET i == (k - 1) \div 3
                     IN  << bottomCenterIndex, (i + 1) * 4 + 1, i * 4 + 1 >>[((k - 1) % 3) + 1]]
    IN  sides \o top \o bottom

\* what a factory hands to loadFromData: the vertex count, the index list
\* it built and the Uint16Array made of it
Geometry(vertexCount, indices) ==
    [vertexCount |-> vertexCount, indices |-> indices, elements |-> Uint16Array(indices)]

\* Mesh.createCube(gl), createPlane(gl, size), createSphere(gl, radius,
\* segments), createCylinder(gl, radius, height, segments)
BuildGeometry(f) ==
    CASE f.shape = "cube" -> Geometry(CubeVertexCount, CubeIndices)
      [] f.shape = "plane" -> Geometry(PlaneVertexCount, PlaneIndices)
      [] f.shape = "sphere" ->
            Geometry(SphereVertexCount(f.segments), SphereIndices(f.segments))
      [] f.shape = "cylinder" ->
            Geometry(CylinderVertexCount(f.segments), CylinderIndices(f.segments))

\* a factory call: new Mesh(gl), the geometry, mesh.loadFromData
CreateMesh ==
    /\ factory # <<>>
    /\ built = <<>>
    /\ \E g \in {BuildGeometry(factory)} :
          /\ built' = g
          /\ \E r \in {LoadFromData(NewMesh, meshLog, Len(g.elements))} :
                /\ meshObj' = r.mesh
                /\ meshLog' = r.log
    /\ meshCalls' = <<"loadFromData">>
    /\ UNCHANGED <<init, renderer, uniformInfo, material, ibl, lights, objects,
                   albedoRef, meshLoaded, lastTime, bound, glError, glLog,
                   rafPending, errorDisplay, lastCall, camera, cameraEvents>>
    /\ UNCHANGED shaderVars
    /\ UNCHANGED <<activeObjectIndex, shaderLog, vecCall, factory>>

-----------------------------------------------------------------------------
(* Camera's event handlers and public mutators *)

\* a handler of the camera that leaves it as c
CameraEvent(c) ==
    /\ renderer.camera
    /\ cameraEvents < MaxCameraEvents
    /\ camera' = c
    /\ cameraEvents' = cameraEvents + 1
    /\ glLog' = <<>>
    /\ lastCall' = NoCall
    /\ UNCHANGED <<init, renderer, uniformInfo, material, ibl, lights, objects,
                   albedoRef, meshLoaded, lastTime, bound, glError, rafPending,
                   errorDisplay>>
    /\ UNCHANGED meshVars
    /\ UNCHANGED shaderVars
    /\ UNCHANGED <<activeObjectIndex, shaderLog>>
    /\ UNCHANGED factoryVars

OnMouseDown(clientX, clientY) ==
    CameraEvent([camera EXCEPT !.isMouseDown = TRUE,
                               !.lastMouseX = clientX, !.lastMouseY = clientY])

OnMouseMove(clientX, clientY) ==
    CameraEvent(IF ~camera.isMouseDown THEN camera
                ELSE MouseDrag(camera, clientX, clientY))

OnMouseUp == CameraEvent([camera EXCEPT !.isMouseDown = FALSE])

OnWheel(deltaY) == CameraEvent(Wheel(camera, deltaY))

\* onTouchStart with touches touch points, the first at (clientX, clientY)
OnTouchStart(touches, clientX, clientY) ==
    CameraEvent(IF touches = 1
                THEN [camera EXCEPT !.isMouseDown = TRUE,
                                    !.lastMouseX = clientX, !.lastMouseY = clientY]
                ELSE camera)

OnTouchMove(touches, clientX, clientY) ==
    CameraEvent(IF touches = 1 /\ camera.isMouseDown
                THEN TouchDrag(camera, clientX, clientY)
                ELSE camera)

OnTouchEnd == CameraEvent([camera EXCEPT !.isMouseDown = FALSE])

\* setTarget(x, y, z)
SetTarget(target) == CameraEvent(UpdateViewMatrix([camera EXCEPT !.target = target]))

\* setRadius(radius)
SetRadius(radius) ==
    CameraEvent(UpdateViewMatrix([camera EXCEPT !.radius = ClampRadius(radius)]))

-----------------------------------------------------------------------------
(* The inputs the model draws *)

\* positions of the roughness slider
RoughnessInputs == {0, 50}

\* the preset buttons pressed
PresetInputs == {"Gold", "Glass"}

\* the state after new PBRRenderer(), with the light list and the fallback
\* ambient colour given
Constructed(lts, ambient) ==
    /\ init = [called |-> FALSE, error |-> "none", returned |-> "none"]
    /\ renderer = [f \in RendererFields |-> FALSE]
    /\ uniformInfo = <<>>
    /\ material = InitialMaterial
    /\ ibl = [enabled |-> TRUE, intensity |-> 100, ambientColor |-> ambient]
    /\ lights = lts
    /\ objects = <<>>
    /\ albedoRef = <<>>
    /\ meshLoaded = [m \in MeshNames |-> FALSE]
    /\ lastTime = 0
    /\ bound = <<>>
    /\ glError = FALSE
    /\ glLog = <<>>
    /\ rafPending = 0
    /\ errorDisplay = "none"
    /\ lastCall = NoCall
    /\ camera = NoCamera
    /\ cameraEvents = 0
    /\ meshObj = NewMesh
    /\ meshLog = <<>>
    /\ meshCalls = <<>>
    /\ activeObjectIndex = 0
    /\ shaderLog = <<>>

NoFactory == <<>>
NoGeometry == <<>>

\* no call on a vector uniform and no factory call is under way
NoFactoryCall ==
    /\ vecCall = NoVecCall
    /\ factory = NoFactory
    /\ built = NoGeometry

\* the program as it is built: the constructor's lights and ambient colour,
\* and no fragment shaded yet
Init ==
    /\ Constructed(DefaultLights, InitialAmbient)
    /\ fragment = NoFragment
    /\ shaded = NoShade
    /\ NoFactoryCall

Next ==
    \/ \E fail \in InitFailures, envErr \in BOOLEAN : InitRenderer(fail, envErr)
    \/ \E now \in lastTime..Min(lastTime + 1, MaxTime), envErr \in BOOLEAN : Render(now, envErr)
    \/ \E v \in RoughnessInputs : SetRoughness(v)
    \/ \E n \in PresetInputs : LoadPreset(n)
    \/ \E s \in Shapes : ChangeObjectShape(s)
    \/ CreateMaterialShowcase
    \/ CreateMixedScene

Spec == Init /\ [][Next]_vars

-----------------------------------------------------------------------------
(* The uniform binder under inputs the constructor does not produce: light *)
(* lists of every length up to MaxLightsLen, an ambient colour that does    *)
(* not match the vec3 u_ambientColor, and setUniform calls from outside    *)
(* render()                                                                *)

\* values of ibl.ambientColor: the constructor's array, and a scalar
AmbientInputs == {InitialAmbient, Num(10)}

\* setUniform calls from outside render(): a known vec3, a known mat4, the
\* second element of a light array, a name no shader declares
CallNames == {"u_ambientColor", "u_viewMatrix", "u_lightTypes[1]", "u_time"}
CallValues == {<<Num(10)>>, <<Arr(<<10, 10, 15>>)>>}

InitBinder ==
    /\ \E n \in 0..MaxLightsLen, a \in AmbientInputs : Constructed(LightList(n), a)
    /\ fragment = NoFragment
    /\ shaded = NoShade
    /\ NoFactoryCall

NextBinder ==
    \/ \E fail \in InitFailures, envErr \in BOOLEAN : InitRenderer(fail, envErr)
    \/ \E now \in lastTime..Min(lastTime + 1, MaxTime), envErr \in BOOLEAN : Render(now, envErr)
    \/ CreateMixedScene
    \/ \E n \in CallNames, v \in CallValues : CallSetUniform(n, v)

BinderSpec == InitBinder /\ [][NextBinder]_vars

-----------------------------------------------------------------------------
(* setUniform on a vec2, a vec3 and a vec4 uniform, the components passed  *)
(* in each of the three forms                                              *)

\* values of one component, in hundredths
ComponentInputs == {0, 50, 100}

\* the component lists of length n
ComponentLists(n) == [1..n -> ComponentInputs]

\* a UniformManager constructed over that program, nothing bound yet; the
\* renderer is not initialised
InitVector ==
    /\ init = [called |-> FALSE, error |-> "none", returned |-> "none"]
    /\ renderer = [f \in RendererFields |-> FALSE]
    /\ uniformInfo = VectorUniformInfo
    /\ material = InitialMaterial
    /\ ibl = [enabled |-> TRUE, intensity |-> 100, ambientColor |-> InitialAmbient]
    /\ lights = DefaultLights
    /\ objects = <<>>
    /\ albedoRef = <<>>
    /\ meshLoaded = [m \in MeshNames |-> FALSE]
    /\ lastTime = 0
    /\ bound = [n \in DOMAIN VectorUniformInfo |-> <<>>]
    /\ glError = FALSE
    /\ glLog = <<>>
    /\ rafPending = 0
    /\ errorDisplay = "none"
    /\ lastCall = NoCall
    /\ camera = NoCamera
    /\ cameraEvents = 0
    /\ meshObj = NewMesh
    /\ meshLog = <<>>
    /\ meshCalls = <<>>
    /\ activeObjectIndex = 0
    /\ shaderLog = <<>>
    /\ fragment = NoFragment
    /\ shaded = NoShade
    /\ factory = NoFactory
    /\ built = NoGeometry
    /\ \E name \in DOMAIN VectorUniformInfo, form \in VectorForms :
          \E comps \in ComponentLists(VectorSize(name)) :
             vecCall = [name |-> name, form |-> form, comps |-> comps]

NextVector == SetVectorUniform

VectorSpec == InitVector /\ [][NextVector]_vars

-----------------------------------------------------------------------------
(* The fragment shader on one fragment and one light *)

\* values of u_albedo
AlbedoInputs == {0, 500, 1000}

\* the fragments and lights shaded: every light type, two intensities;
\* distances below half the range, at half the range, between, at the range
\* and beyond it; dielectric, half-metallic and metallic materials; light
\* counts of 0, 1 and 9; albedo is main()'s local, the decoded u_albedo
FragmentInputs ==
    {f \in [lightType : {0, 1, 2},
            intensity : {300, 500},
            range : {800},
            distance : {200, 400, 600, 800, 1200},
            innerCone : {1500},
            outerCone : {2500},
            cosTheta : {1000, 940},
            lightColor : {1000},
            numLights : {0, 1, 9},
            u_albedo : AlbedoInputs,
            albedo : {GammaDecode(u) : u \in AlbedoInputs},
            metallic : {0, 500, 1000},
            roughness : {0, 500},
            HdotV : {700},
            NdotL : {800},
            NdotV : {600},
            specular : {250},
            useIBL : BOOLEAN,
            irradiance : {700},
            prefilteredColor : {600},
            ao : {800},
            iblIntensity : {1000},
            ambientColor : {150},
            undef : SmoothstepUndefined] :
        f.albedo = GammaDecode(f.u_albedo)}

InitShader ==
    /\ Constructed(DefaultLights, InitialAmbient)
    /\ fragment \in FragmentInputs
    /\ shaded = NoShade
    /\ NoFactoryCall

NextShader == ShadeFragment

ShaderSpec == InitShader /\ [][NextShader]_vars

-----------------------------------------------------------------------------
(* One Mesh under calls of its methods in any order *)

\* indices.length of the plane and of the cube
IndexInputs == {6, 36}

NextMesh ==
    \/ \E n \in IndexInputs : MeshLoadFromData(n)
    \/ MeshRenderCall
    \/ MeshDispose

MeshSpec == Init /\ [][NextMesh]_vars

-----------------------------------------------------------------------------
(* The material editor's controllers, with frames between *)

\* positions of the metallic slider
MetallicInputs == {0, 100}
\* positions of the ambient occlusion slider
AoInputs == {0, 100}
\* colours picked: red and black, as the picker writes them
ColorInputs == {<<25500, 0, 0>>, <<0, 0, 0>>}
\* positions of the main light's intensity slider
LightIntensityInputs == {0, 1000}

NextEditor ==
    \/ InitRenderer("none", FALSE)
    \/ Render(lastTime, FALSE)
    \/ \E v \in MetallicInputs : SetMetallic(v)
    \/ \E v \in RoughnessInputs : SetRoughness(v)
    \/ \E v \in AoInputs : SetAo(v)
    \/ \E rgb \in ColorInputs : PickAlbedo(rgb)
    \/ \E n \in PresetInputs : LoadPreset(n)
    \/ \E v \in LightIntensityInputs : SetLightIntensity(v)

EditorSpec == Init /\ [][NextEditor]_vars

-----------------------------------------------------------------------------
(* The material editor's controllers and its shape selector *)

NextShape ==
    \/ InitRenderer("none", FALSE)
    \/ \E v \in MetallicInputs : SetMetallic(v)
    \/ \E v \in RoughnessInputs : SetRoughness(v)
    \/ \E v \in AoInputs : SetAo(v)
    \/ \E rgb \in ColorInputs : PickAlbedo(rgb)
    \/ \E n \in PresetInputs : LoadPreset(n)
    \/ \E s \in Shapes : ChangeObjectShape(s)

ShapeSpec == Init /\ [][NextShape]_vars

-----------------------------------------------------------------------------
(* SceneManager's methods and the editor's shape selector, in any order *)

\* the object added: a cube of red plastic
AddedObjects ==
    {SceneObject("cube", Material(<<80, 20, 20>>, 0, 40, Undefined),
                 Transform(<<-300, 0, 0>>, <<>>, <<>>, <<>>))}

\* the index arguments: below the list, in it, past its end
IndexArguments == -1..MaxObjects

NextScene ==
    \/ InitRenderer("none", FALSE)
    \/ \E o \in AddedObjects : AddObject(o)
    \/ \E i \in IndexArguments : RemoveObject(i)
    \/ \E i \in IndexArguments : SetActiveObject(i)
    \/ CreateMaterialShowcase
    \/ CreateMixedScene
    \/ \E s \in Shapes : ChangeObjectShape(s)

SceneSpec == Init /\ [][NextScene]_vars

-----------------------------------------------------------------------------
(* The Mesh factories on every segment count from 1 to the sphere's 32 *)

\* the largest segments argument: init() builds the sphere with 32 and the
\* cylinder with 16 segments
MaxSegments == 32

\* the factory calls: the cube, the plane, spheres and cylinders
FactoryInputs ==
    {[shape |-> "cube", segments |-> 0], [shape |-> "plane", segments |-> 0]}
    \cup [shape : {"sphere", "cylinder"}, segments : 1..MaxSegments]

InitGeometry ==
    /\ Constructed(DefaultLights, InitialAmbient)
    /\ fragment = NoFragment
    /\ shaded = NoShade
    /\ vecCall = NoVecCall
    /\ factory \in FactoryInputs
    /\ built = NoGeometry

NextGeometry == CreateMesh

GeometrySpec == InitGeometry /\ [][NextGeometry]_vars

-----------------------------------------------------------------------------
(* The camera under pointer, wheel and mutator events, with frames between *)

\* pointer positions (clientX, clientY): drags of 100 px and of 300 px and more
PointerInputs == {<<0, 0>>, <<20, 100>>, <<400, -300>>}
\* event.touches.length
TouchCounts == {1, 2}
\* event.deltaY of a wheel event
WheelInputs == {-100, 100}
\* arguments of setRadius: below minRadius, inside, near and above maxRadius
RadiusInputs == {50, 300, 1995, 2500}
\* arguments of setTarget
TargetInputs == {<<0, 0, 0>>, <<100, -50, 0>>}

NextCamera ==
    \/ InitRenderer("none", FALSE)
    \/ Render(lastTime, FALSE)
    \/ \E p \in PointerInputs : OnMouseDown(p[1], p[2])
    \/ \E p \in PointerInputs : OnMouseMove(p[1], p[2])
    \/ OnMouseUp
    \/ \E d \in WheelInputs : OnWheel(d)
    \/ \E n \in TouchCounts, p \in PointerInputs : OnTouchStart(n, p[1], p[2])
    \/ \E n \in TouchCounts, p \in PointerInputs : OnTouchMove(n, p[1], p[2])
    \/ OnTouchEnd
    \/ \E t \in TargetInputs : SetTarget(t)
    \/ \E r \in RadiusInputs : SetRadius(r)

CameraSpec == Init /\ [][NextCamera]_vars

\* the frame loop under the scheduling requestAnimationFrame guarantees: a
\* pending callback is eventually run
FairSpec ==
    Spec /\ WF_vars(\E now \in lastTime..Min(lastTime + 1, MaxTime), envErr \in BOOLEAN :
                       Render(now, envErr))

-----------------------------------------------------------------------------
(* What the claims read off the state *)

\* the handler that ran last was a frame: glLog holds the frame's GL calls
FrameRan == glLog # <<>> /\ glLog[1].op = "clear"

\* a setUniform call that reached gl.uniform*, whatever its result
IsBind(e) == e.op = "uniform"
IsGlobalBind(e) == IsBind(e) /\ e.name \notin PerObjectNames
IsObjectStep(e) == e.op = "draw" \/ (IsBind(e) /\ e.name \in PerObjectNames)
IsDraw(e) == e.op = "draw"

\* the draw calls of the frame, in order
Draws == SelectSeq(glLog, IsDraw)

\* the global uniforms of a frame with these lights: camera, light count,
\* the fields of every light the shader reads, IBL
GlobalNames(lts) ==
    {"u_viewMatrix", "u_projectionMatrix", "u_cameraPosition", "u_numLights",
     "u_useIBL", "u_iblIntensity", "u_ambientColor"}
    \cup {LightName(LightBases[b], i) :
            b \in DOMAIN LightBases, i \in 0..(Min(Len(lts), MAX_LIGHTS) - 1)}

\* the per-object uniform values of scene object o
ObjectUniforms(o) ==
    [n \in PerObjectNames |->
        CASE n = "u_modelMatrix" -> o.modelMatrix
          [] n = "u_normalMatrix" -> NormalFromMat4(o.modelMatrix)
          [] n = "u_albedo" -> o.material.albedo
          [] n = "u_metallic" -> <<o.material.metallic>>
          [] n = "u_roughness" -> <<o.material.roughness>>
          [] n = "u_ao" -> <<o.material.ao>>]

\* the frame's log holds one entry per statement of the try block: nothing
\* was skipped
FrameComplete ==
    LET cmds == FrameCmds(uniformInfo, camera, objects, ibl, lights)
    IN  /\ Len(glLog) = Len(cmds)
        /\ \A k \in 1..Len(cmds) :
              CASE cmds[k].op = "setUniform" ->
                     IsBind(glLog[k]) /\ glLog[k].name = cmds[k].name
                [] cmds[k].op = "draw" ->
                     IsDraw(glLog[k]) /\ glLog[k].obj = cmds[k].obj
                [] cmds[k].op = "checkGLError" -> glLog[k].op = "getError"
                [] OTHER -> glLog[k].op = cmds[k].op

-----------------------------------------------------------------------------
(* The claims *)

\* C1: a setUniform call with a name that is not in the cached uniform table
\* returns without throwing, issues no GL uniform call, flags no GL error
\* and leaves every bound uniform as it was.
C1_UnknownNameIsNoOp ==
    [][ (lastCall'.called /\ ~HasUniform(uniformInfo, lastCall'.name))
          => /\ ~lastCall'.threw
             /\ \A i \in DOMAIN glLog' : ~IsBind(glLog'[i])
             /\ bound' = bound
             /\ glError' = glError ]_vars

\* C1 witness: after a frame has bound the uniforms, setUniform was called
\* with the name of the second element of a light array, which is not in
\* the table, and warned.
C1_Witness ==
    /\ lastCall.called
    /\ lastCall.name = "u_lightTypes[1]"
    /\ glLog # <<>> /\ glLog[1].op = "warn"
    /\ bound["u_viewMatrix"] # <<>>

\* C2: a value that does not match the uniform's type never makes
\* setUniform throw: a call from outside render() returns normally, and a
\* frame with such a bind still executes every later bind, every draw call
\* and the final error check.
C2_MismatchDoesNotPropagate ==
    /\ lastCall.called => ~lastCall.threw
    /\ (FrameRan /\ \E i \in DOMAIN glLog : IsBind(glLog[i]) /\ glLog[i].res # "ok")
          => FrameComplete

\* C2 witness: a frame in which the bind of u_ambientColor failed (a scalar
\* for a vec3) and in which four objects were drawn afterwards.
C2_Witness ==
    /\ FrameRan
    /\ \E i \in DOMAIN glLog :
          /\ glLog[i].name = "u_ambientColor" /\ glLog[i].res = "INVALID_VALUE"
          /\ \E j \in DOMAIN glLog : j > i /\ IsDraw(glLog[j]) /\ glLog[j].obj = 4

\* C3: once init() has started the loop, a render callback is pending after
\* every handler, also after a frame whose body raised an error; and a
\* frame eventually runs again after any other handler ran.
C3_LoopNeverHalts ==
    /\ [](renderer.materialEditor => rafPending >= 1)
    /\ ((renderer.materialEditor /\ ~FrameRan) ~> FrameRan)

\* C3 witness: a frame whose body raised an error (shown by displayError)
\* has run, and the next callback is pending.
C3_Witness ==
    /\ FrameRan
    /\ glLog[Len(glLog)].op = "getError" /\ glLog[Len(glLog)].res = "error"
    /\ errorDisplay = "render"
    /\ rafPending = 1

C5_DrawUsesOwnState ==
    FrameRan =>
        /\ Len(Draws) = Len(objects)
        /\ \A k \in 1..Len(objects) :
              /\ Draws[k].obj = k
              /\ Draws[k].name = objects[k].mesh
              /\ Draws[k].snap = ObjectUniforms(objects[k])

\* C5 witness: a frame over several objects, two neighbours of which differ
\* in material and in model matrix.
C5_Witness ==
    /\ FrameRan
    /\ Len(objects) >= 2
    /\ Len(Draws) = Len(objects)
    /\ objects[1].material # objects[2].material
    /\ objects[1].modelMatrix # objects[2].modelMatrix

\* C6: after a shader compile or link failure in init() there is no
\* UniformManager, camera, mesh, scene or editor, no render callback is
\* pending, and no GL call of a frame is ever issued.
C6_ShaderFailureAbortsSetup ==
    (init.called /\ init.error \in ShaderFailures) =>
        /\ \A f \in {"shaderProgram", "uniformManager", "camera", "meshes",
                     "sceneManager", "materialEditor"} : ~renderer[f]
        /\ uniformInfo = <<>> /\ bound = <<>>
        /\ objects = <<>>
        /\ \A m \in MeshNames : ~meshLoaded[m]
        /\ rafPending = 0
        /\ glLog = <<>>

\* C6 witness: init() ran and the fragment shader failed to compile.
C6_Witness == init.called /\ init.error = "fragment" /\ renderer.gl

\* C7 as stated: an initialization error makes init() complete by throwing.
C7_InitErrorPropagates ==
    (init.called /\ init.error # "none") => init.returned = "threw"

\* C7 amended: an initialization error is caught inside init(): it is
\* shown by displayError, init() completes normally, and no render
\* callback is ever scheduled.
C7_InitErrorCaught ==
    (init.called /\ init.error # "none") =>
        /\ init.returned = "normal"
        /\ errorDisplay = "init"
        /\ rafPending = 0

\* C7 witness: init() ran and context creation failed.
C7_Witness == init.called /\ init.error = "context" /\ init.returned = "normal"

LightIndicesBound ==
    {i \in 0..MaxLightsLen :
        \E b \in DOMAIN LightBases, j \in DOMAIN glLog :
            IsBind(glLog[j]) /\ glLog[j].name = LightName(LightBases[b], i)}

C9_AllLightsBound ==
    FrameRan =>
        \A n \in GlobalNames(lights) :
            \E j \in DOMAIN glLog : IsBind(glLog[j]) /\ glLog[j].name = n /\ glLog[j].res = "ok"

\* C10 as stated: the roughness bound at every draw call is greater than 0.
C10_RoughnessPositiveAtDraw ==
    \A i \in DOMAIN glLog : IsDraw(glLog[i]) => glLog[i].snap["u_roughness"][1] > 0

\* C11 as stated: no scene object's material shares its albedo array with
\* the renderer's material (or with another object's), so an in-place edit
\* of a component through one holder is seen through no other.
C11_NoSharedAlbedo ==
    /\ Len(albedoRef) = Len(objects)
    /\ \A i \in DOMAIN albedoRef : albedoRef[i] = "own"

\* target + radius * (cos(elevation) cos(azimuth), sin(elevation),
\* cos(elevation) sin(azimuth)) for the orbit state of c
OrbitPosition(c) ==
    << c.target[1] + Scale(Scale(c.radius, Cos(c.elevation)), Cos(c.azimuth)),
       c.target[2] + Scale(c.radius, Sin(c.elevation)),
       c.target[3] + Scale(Scale(c.radius, Cos(c.elevation)), Sin(c.azimuth)) >>

\* C12: after any sequence of setRadius calls and wheel events (and drags),
\* the radius lies in [minRadius, maxRadius] and position and view matrix are
\* those of the stored radius; a setRadius below minRadius leaves exactly
\* minRadius, with position and view matrix computed from minRadius.
C12_RadiusClamped ==
    /\ [](renderer.camera =>
            /\ camera.radius >= MinRadius /\ camera.radius <= MaxRadius
            /\ camera.position = OrbitPosition(camera)
            /\ camera.viewMatrix = LookAt(camera.position, camera.target, CameraUp))
    /\ [][\A r \in RadiusInputs :
            (r < MinRadius /\ SetRadius(r)) =>
                /\ camera'.radius = MinRadius
                /\ camera'.position =
                      OrbitPosition([camera EXCEPT !.radius = MinRadius])]_vars

\* C12 witness: setRadius below minRadius has left the camera at minRadius
\* on the x axis, and a wheel event then zoomed further in.
C12_Witness ==
    /\ renderer.camera
    /\ cameraEvents >= 2
    /\ camera.radius = MinRadius
    /\ camera.position = <<MinRadius, 0, 0>>

\* C13: after any sequence of mouse and touch drags the elevation lies in
\* [minElevation, maxElevation].
C13_ElevationClamped ==
    renderer.camera =>
        camera.elevation >= MinElevation /\ camera.elevation <= MaxElevation

\* C13 witness: a drag of more than 300 px has driven the elevation to its
\* upper limit, and one to its lower limit before it.
C13_Witness ==
    /\ renderer.camera
    /\ cameraEvents = MaxCameraEvents
    /\ camera.isMouseDown
    /\ camera.elevation = MaxElevation

\* C14: after every camera mutator the position is target + radius *
\* (cos e cos a, sin e, cos e sin a) for the current orbit state and the view
\* matrix is lookAt of that position and target; the view matrix and camera
\* position a frame has bound are those of the current orbit state.
C14_ViewMatrixCurrent ==
    renderer.camera =>
        /\ camera.position = OrbitPosition(camera)
        /\ camera.viewMatrix = LookAt(OrbitPosition(camera), camera.target, CameraUp)
        /\ FrameRan =>
              /\ bound["u_viewMatrix"] = LookAt(OrbitPosition(camera), camera.target, CameraUp)
              /\ bound["u_cameraPosition"] = OrbitPosition(camera)

\* C14 witness: a frame ran after a drag and a setTarget moved the camera off
\* its initial orbit state.
C14_Witness ==
    /\ renderer.camera
    /\ FrameRan
    /\ camera.azimuth # 0 /\ camera.elevation # 0
    /\ camera.target # <<0, 0, 0>>
    /\ bound["u_cameraPosition"] = camera.position
    /\ camera.position # NewCamera.position

\* the camera-derived uniforms, the light count and the IBL uniforms
PerFrameNames ==
    {"u_viewMatrix", "u_projectionMatrix", "u_cameraPosition", "u_numLights",
     "u_useIBL", "u_iblIntensity", "u_ambientColor"}

\* the positions of the frame's log at which uniform n is bound
BindsOf(n) == {j \in DOMAIN glLog : IsBind(glLog[j]) /\ glLog[j].name = n}

\* C15: in every frame, whatever the number of scene objects, each of
\* u_viewMatrix, u_projectionMatrix, u_cameraPosition, u_numLights, u_useIBL,
\* u_iblIntensity and u_ambientColor is bound exactly once.
C15_GlobalsOncePerFrame ==
    FrameRan => \A n \in PerFrameNames : Cardinality(BindsOf(n)) = 1

\* C15 witness: a frame of the five-object showcase has bound each of them.
C15_Witness ==
    /\ FrameRan
    /\ Len(objects) = Len(MaterialShowcase)
    /\ Len(Draws) = Len(objects)
    /\ \A n \in PerFrameNames : BindsOf(n) # {}

\* material m has albedo components, metallic and ao in [0, 1] and
\* roughness at most 1
MaterialInRange(m) ==
    /\ \A k \in DOMAIN m.albedo : m.albedo[k] >= 0 /\ m.albedo[k] <= 100
    /\ m.metallic >= 0 /\ m.metallic <= 100
    /\ m.ao >= 0 /\ m.ao <= 100
    /\ m.roughness <= 100

\* C16: after any sequence of editor operations (sliders, colour picker,
\* loadPreset, light intensity slider) the renderer's material and every
\* scene object's material have albedo components, metallic and ao in [0, 1]
\* and roughness at most 1, and every light's intensity is at least 0.
C16_FieldsInRange ==
    /\ MaterialInRange(material)
    /\ \A i \in DOMAIN objects : MaterialInRange(objects[i].material)
    /\ \A i \in DOMAIN lights : lights[i].intensity >= 0

\* C17: loadPreset is idempotent: for every preset name, the material fields
\* of the renderer and of every scene object after applying the preset are
\* the preset's, and applying the same preset again leaves them as they are.
C17_LoadPresetIdempotent ==
    renderer.materialEditor =>
        \A n \in PresetNames :
            LET once == PresetFields(material, objects, n)
                twice == PresetFields(once.material, once.objects, n)
            IN  /\ once.material = Presets[n]
                /\ twice = once

\* C17 witness: loadPreset("Gold") has run on the five-object showcase, whose
\* objects had five different materials.
C17_Witness ==
    /\ renderer.materialEditor
    /\ Len(objects) = Len(MaterialShowcase)
    /\ material = Presets["Gold"]
    /\ \A i \in DOMAIN objects : objects[i].material = Presets["Gold"]
    /\ PresetFields(material, objects, "Gold") = [material |-> material, objects |-> objects]

\* dispose() has been called on the Mesh
Disposed == \E k \in DOMAIN meshCalls : meshCalls[k] = "dispose"

\* the entries of the Mesh's log that delete WebGL object h
DeletesOf(h) ==
    {k \in DOMAIN meshLog :
        meshLog[k].op \in {"deleteVertexArray", "deleteBuffer"} /\ meshLog[k].h = h}

\* C18: once dispose() has run, a render() of the Mesh makes no draw call and
\* throws nothing (it warns and returns), and a further dispose() deletes
\* nothing; no vertex array or buffer is ever deleted twice, and after
\* dispose() the three created for the Mesh are each deleted once.
C18_DisposeInvalidatesDraws ==
    /\ [](\A h \in 1..Created(meshLog) : Cardinality(DeletesOf(h)) <= 1)
    /\ [](Disposed =>
            /\ meshObj.vertexArray = NullHandle
            /\ \A h \in 1..Created(meshLog) : Cardinality(DeletesOf(h)) = 1)
    /\ [][(Disposed /\ MeshRenderCall) =>
             meshLog' = Append(meshLog, GlEntry("warn", NullHandle))]_vars
    /\ [][(Disposed /\ MeshDispose) => meshLog' = meshLog]_vars

\* C18 witness: a loaded Mesh was drawn, disposed, rendered again and
\* disposed again.
C18_Witness ==
    /\ Len(meshCalls) >= 5
    /\ meshCalls[1] = "loadFromData"
    /\ meshCalls[2] = "render"
    /\ meshCalls[3] = "dispose"
    /\ meshCalls[4] = "render"
    /\ meshCalls[5] = "dispose"
    /\ meshLog[4].op = "drawElements"
    /\ Len(meshLog) = 8

\* C19: with metallic = 1 the diffuse weight and the diffuse term of
\* calculateLightContribution are exactly 0 for every light type, and so is
\* the diffuse part of the IBL ambient term, whatever albedo, roughness and
\* directions are.
C19_MetalHasNoDiffuse ==
    (shaded # NoShade /\ fragment.metallic = 1000) =>
        /\ shaded.light.kD = 0
        /\ shaded.light.diffuse = 0
        /\ fragment.useIBL => shaded.ambient.diffuse = 0

\* C19 witness: a metallic fragment with a bright albedo is lit by a spot
\* light inside its range and cone, with IBL on; the light's contribution is
\* not zero.
C19_Witness ==
    /\ shaded # NoShade
    /\ fragment.metallic = 1000
    /\ fragment.albedo = 1000
    /\ fragment.lightType = 2
    /\ fragment.useIBL
    /\ ~shaded.light.returnedEarly
    /\ shaded.light.out > 0
    /\ shaded.ambient.out > 0

\* C20: for a point or spot light the attenuation at distance >= range is 0
\* and the light contributes nothing there, and at distance <= range / 2 it
\* is intensity / distance^2, times the cone factor for a spot light.
C20_AttenuationByRange ==
    (shaded # NoShade /\ fragment.lightType \in {1, 2}) =>
        /\ fragment.distance >= fragment.range =>
              shaded.light.attenuation = 0 /\ shaded.light.out = 0
        /\ 2 * fragment.distance <= fragment.range =>
              shaded.light.attenuation =
                 IF fragment.lightType = 1
                 THEN InverseSquare(fragment.intensity, fragment.distance)
                 ELSE Scale(InverseSquare(fragment.intensity, fragment.distance),
                            ConeAttenuation(fragment))

\* C21: with no lights and IBL off, the fragment colour is the gamma-encoded,
\* tone-mapped product of ambient colour, decoded albedo and ao; the light
\* loop adds nothing.
C21_AmbientOnlyColour ==
    (shaded # NoShade /\ fragment.numLights = 0 /\ ~fragment.useIBL) =>
        /\ shaded.Lo = 0
        /\ shaded.fragColor =
              GammaEncode(Reinhard(Scale(Scale(fragment.ambientColor,
                                               GammaDecode(fragment.u_albedo)),
                                         fragment.ao)))

\* C21 witness: such a fragment, with an albedo of 0.5 and a light in the
\* arrays that would contribute were it counted, has a colour above 0.
C21_Witness ==
    /\ shaded # NoShade
    /\ fragment.numLights = 0
    /\ ~fragment.useIBL
    /\ fragment.u_albedo = 500
    /\ shaded.light.out > 0
    /\ shaded.fragColor > 0

\* C22: the base reflectance F0 is 0.04 when metallic = 0 and the linear
\* albedo when metallic = 1, for every albedo.
C22_BaseReflectance ==
    shaded # NoShade =>
        /\ fragment.metallic = 0 => shaded.F0 = 40
        /\ fragment.metallic = 1000 => shaded.F0 = GammaDecode(fragment.u_albedo)

\* C22 witness: a metallic fragment whose decoded albedo is neither 0.04 nor
\* its u_albedo has been shaded.
C22_Witness ==
    /\ shaded # NoShade
    /\ fragment.metallic = 1000
    /\ fragment.u_albedo = 500
    /\ shaded.F0 # 40
    /\ shaded.F0 # fragment.u_albedo
    /\ shaded.F0 > 0

\* C23: for a vec2, a vec3 and a vec4 uniform alike, setUniform binds the
\* components it was given, in order, whether they were passed as separate
\* arguments, as one plain array or as one typed array.
C23_VectorFormsAgree ==
    (vecCall # NoVecCall /\ lastCall.called) =>
        /\ glLog[1].res = "ok"
        /\ ~glError
        /\ bound[vecCall.name] = vecCall.comps

\* C24: in every frame the update comes before the drawing: a render()
\* callback advances each object's rotation by rotationSpeed * deltaTime,
\* and the model matrix bound at each draw call of that frame is the one
\* of the drawn object's position, advanced rotation and scale.
C24_UpdateBeforeDraw ==
    [][ (init.called /\ FrameRan') =>
          /\ Len(objects') = Len(objects)
          /\ \A k \in 1..Len(objects) :
                objects'[k].rotation =
                   [i \in 1..3 |-> objects[k].rotation[i]
                                     + objects[k].rotationSpeed[i] * (lastTime' - lastTime)]
          /\ \A d \in DOMAIN Draws' :
                Draws'[d].snap["u_modelMatrix"] =
                   objects'[Draws'[d].obj].position \o objects'[Draws'[d].obj].rotation
                      \o objects'[Draws'[d].obj].scale ]_vars

\* C24 witness: a frame has drawn the mixed scene after time had passed:
\* the sphere has turned about its y axis and the left cube about x and y,
\* and the draw of the cube had the turned matrix bound.
C24_Witness ==
    /\ FrameRan
    /\ lastTime = 1
    /\ Len(objects) = 4 /\ Len(Draws) = 4
    /\ objects[1].rotation = <<0, 100, 0>>
    /\ objects[2].rotation = <<50, 50, 0>>
    /\ Draws[2].snap["u_modelMatrix"] = <<-300, 0, 0, 50, 50, 0, 100, 100, 100>>

\* other intensities, ranges and distances of the light of a fragment
OtherLights(f) ==
    {[f EXCEPT !.intensity = i, !.range = r, !.distance = d] :
        i \in {0, 300, 1000}, r \in {0, 800}, d \in {200, 1200}}

\* C25: a directional light has attenuation exactly 1: its contribution and
\* the fragment's colour are the same for every intensity, range and
\* distance of the light; the editor's Main Light is the directional light.
C25_DirectionalIgnoresIntensity ==
    /\ DefaultLights[1].type = 0
    /\ (shaded # NoShade /\ fragment.lightType = 0) =>
          /\ shaded.light.attenuation = 1000
          /\ \A g \in OtherLights(fragment) : CalculateLightContribution(g) = shaded.light
          /\ \A i \in {0, 1000} :
                Shade([fragment EXCEPT !.intensity = i]).fragColor = shaded.fragColor

\* C25 witness: a fragment lit by one directional light of intensity 5,
\* which contributes to its colour.
C25_Witness ==
    /\ shaded # NoShade
    /\ fragment.lightType = 0 /\ fragment.intensity = 500 /\ fragment.numLights = 1
    /\ ~shaded.light.returnedEarly
    /\ shaded.Lo > 0
    /\ shaded.fragColor > 0

\* C26: after the editor's operations (a slider or the colour picker with
\* updateMaterial, loadPreset, changeObjectShape) every scene object's
\* albedo, metallic, roughness and ao equal those of renderer.material,
\* also on the object a shape swap has created.
C26_ObjectsCarryMaterial ==
    renderer.materialEditor =>
        \A k \in 1..Len(objects) :
           /\ objects[k].material.albedo = material.albedo
           /\ objects[k].material.metallic = material.metallic
           /\ objects[k].material.roughness = material.roughness
           /\ objects[k].material.ao = material.ao

\* C27: whenever the scene is not empty, activeObjectIndex is the index of
\* an object of the scene (0 <= index < objects.length) and getActiveObject
\* returns an object, after any of SceneManager's methods and after the
\* editor's shape swap.
C27_ActiveIndexValid ==
    (renderer.sceneManager /\ objects # <<>>) =>
        /\ activeObjectIndex >= 0
        /\ activeObjectIndex < Len(objects)
        /\ GetActiveObject(objects, activeObjectIndex) # Null

\* C28: at most one render callback is pending at any time; one is pending
\* only after an init() whose setup succeeded; and every render(), whether
\* its body completed or raised an error, leaves exactly one pending.
C28_OneCallbackPending ==
    /\ [](/\ rafPending <= 1
          /\ rafPending > 0 => (init.called /\ init.error = "none"
                                  /\ renderer.materialEditor))
    /\ [][ (init.called /\ FrameRan') => rafPending' = 1 ]_vars

\* C28 witness: a callback has run a frame (time has advanced past the
\* frame init() ran) on the normal path, and one callback is pending.
C28_Witness ==
    /\ FrameRan
    /\ lastTime = 1
    /\ errorDisplay = "none"
    /\ glLog[Len(glLog)].res = "NO_ERROR"
    /\ rafPending = 1

\* the shader and program objects createShaderProgram created and has not
\* deleted
Undeleted(log, createOp, deleteOp) ==
    {log[k].obj : k \in {j \in DOMAIN log : log[j].op = createOp}}
       \ {log[k].obj : k \in {j \in DOMAIN log : log[j].op = deleteOp}}

\* C29: on every exit path of createShaderProgram (success, vertex compile
\* failure, fragment compile failure, link failure) no shader it created
\* is left undeleted, and on a failure no program either.
C29_NoShaderLeft ==
    init.called =>
        /\ Undeleted(shaderLog, "createShader", "deleteShader") = {}
        /\ init.error \in ShaderFailures =>
              Undeleted(shaderLog, "createProgram", "deleteProgram") = {}

\* C30: for the cube, the plane, every sphere and every cylinder of 1 to
\* MaxSegments segments, the index list has a length divisible by 3, every
\* index is below the number of vertices, and every index is below 65536,
\* so the Uint16Array holds the indices unchanged.
C30_IndicesValid ==
    built # NoGeometry =>
        /\ Len(built.indices) % 3 = 0
        /\ \A k \in DOMAIN built.indices :
              /\ built.indices[k] >= 0
              /\ built.indices[k] < built.vertexCount
              /\ built.indices[k] < 65536
        /\ built.elements = built.indices
        /\ meshObj.indexCount = Len(built.indices)

\* C30 witness: the sphere of 32 segments init() builds: 1089 vertices and
\* 6144 indices, the last vertex among them.
C30_Witness ==
    /\ built # NoGeometry
    /\ factory = [shape |-> "sphere", segments |-> 32]
    /\ built.vertexCount = 1089
    /\ Len(built.indices) = 6144
    /\ \E k \in DOMAIN built.indices : built.indices[k] = 1088

=============================================================================
